---- MODULE Spec2Model ----
(***************************************************************************)
(* ScanLink desktop agent: the Supervisor (src-tauri/src/lib.rs), the      *)
(* WebSocket transport and its protocol handlers (websocket.rs), the       *)
(* credential store (storage.rs) and the auth-token crypto (security.rs).  *)
(*                                                                         *)
(* Option<T> is a sequence of length 0 (None) or 1 (Some).  Strings that   *)
(* the code inspects character by character (device ids, the auth-token    *)
(* payload) are sequences of atoms, ":" being the separator atom.          *)
(* Random values (master tokens, secret keys) are fresh names: the n-th    *)
(* value drawn differs from every value drawn before.  AES-256-GCM is      *)
(* symbolic: a ciphertext opens under the key that made it and no other.   *)
(***************************************************************************)
EXTENDS Integers, Sequences, FiniteSets, TLC

(* ------------------------------ bounds --------------------------------- *)
\* WebSocketServer instances created in one run of the application
MaxTransports == 2
\* sockets accepted in one run, over all transports
MaxConns == 2
\* items the read loops take from their sockets in one run (frames and ends of
\* stream), over all sockets
MaxMsgs == 2
\* Supervisor commands invoked in one run
MaxCmds == 2
\* longest device id given to create_auth_token and validate_auth_token on their own
MaxIdLen == 3

(* ----------------------------- constants ------------------------------- *)
Port == 8081

None == <<>>
Some(x) == <<x>>
IsSome(o) == o # <<>>
Unwrap(o) == o[1]

DevA == <<"a">>
\* an id that contains the separator of the auth-token payload
DevB == <<"b", ":", "c">>
DeviceIds == {DevA, DevB}
PairName == "P"
ScanNames == {None, Some("Q")}
Barcode == "012345"
WrongToken == "WRONG"
LocalIp == "192.168.0.2"

(* ------------------------- security.rs --------------------------------- *)
\* generate_secret_key: the n-th key drawn from the OS RNG
generate_secret_key(n) == "K" \o ToString(n)

\* a key is usable when it is base64 of exactly 32 bytes
ValidKey(k) == k # "Kbad"

\* encrypt: Ok(ciphertext) or Err
encrypt(secret_key, plaintext) ==
    IF ValidKey(secret_key) THEN Some([key |-> secret_key, pt |-> plaintext])
    ELSE None

\* decrypt: Ok(plaintext) or Err
decrypt(secret_key, encrypted) ==
    IF ValidKey(secret_key) /\ encrypted.key = secret_key
        THEN Some(encrypted.pt)
    ELSE None

\* String::new(), what create_auth_token returns when encrypt fails
EmptyToken == [key |-> "", pt |-> <<>>]
\* a client-made blob that is no ciphertext of any key
GarbageToken == [key |-> "", pt |-> <<"x">>]

\* format!("scanlink:{}:{}", device_id, timestamp)
AuthPayload(device_id, ts) ==
    <<"scanlink", ":">> \o device_id \o <<":", ToString(ts)>>

create_auth_token(device_id, secret_key, ts) ==
    LET r == encrypt(secret_key, AuthPayload(device_id, ts))
    IN  IF IsSome(r) THEN Unwrap(r) ELSE EmptyToken

\* position of the first ":" in s, 0 when there is none
RECURSIVE FirstColon(_, _)
FirstColon(s, i) ==
    IF i > Len(s) THEN 0
    ELSE IF s[i] = ":" THEN i
    ELSE FirstColon(s, i + 1)

\* payload.splitn(3, ':')
SplitN3(s) ==
    LET i == FirstColon(s, 1)
    IN  IF i = 0 THEN <<s>>
        ELSE LET rest == SubSeq(s, i + 1, Len(s))
                 j == FirstColon(rest, 1)
             IN  IF j = 0 THEN <<SubSeq(s, 1, i - 1), rest>>
                 ELSE <<SubSeq(s, 1, i - 1), SubSeq(rest, 1, j - 1),
                        SubSeq(rest, j + 1, Len(rest))>>

validate_auth_token(token, expected_device_id, secret_key) ==
    LET r == decrypt(secret_key, token)
    IN  IF IsSome(r)
            THEN LET parts == SplitN3(Unwrap(r))
                 IN  /\ Len(parts) >= 2
                     /\ parts[1] = <<"scanlink">>
                     /\ parts[2] = expected_device_id
        ELSE FALSE

(* -------------------------- storage.rs --------------------------------- *)
DefaultSettings ==
    [auto_start |-> FALSE, minimize_to_tray |-> TRUE, start_minimized |-> FALSE]
OtherSettings ==
    [auto_start |-> TRUE, minimize_to_tray |-> TRUE, start_minimized |-> FALSE]

EmptyMap == [x \in {} |-> x]

\* AppConfig::default()
DefaultConfig ==
    [secret_key |-> None, authorized_devices |-> EmptyMap, settings |-> DefaultSettings]

MapPut(f, k, v) == [x \in (DOMAIN f) \cup {k} |-> IF x = k THEN v ELSE f[x]]
MapDel(f, k) == [x \in (DOMAIN f) \ {k} |-> f[x]]

add_device(cfg, device) ==
    [cfg EXCEPT !.authorized_devices = MapPut(@, device.device_id, device)]
remove_device(cfg, device_id) ==
    [cfg EXCEPT !.authorized_devices = MapDel(@, device_id)]
revoke_all_devices(cfg) ==
    [cfg EXCEPT !.authorized_devices = EmptyMap]
\* is_device_authorized, had it answered true for every device
AuthorizedAlways(cfg, device_id) == TRUE
is_device_authorized(cfg, device_id) ==
    device_id \in DOMAIN cfg.authorized_devices

AuthorizedDevice(device_id, device_name, now) ==
    [device_id |-> device_id, device_name |-> device_name, device_model |-> None,
     paired_at |-> now, last_seen |-> now]

\* a config.json left by an earlier run: device a paired under key K0
EarlierConfig ==
    [secret_key |-> Some("K0"),
     authorized_devices |-> MapPut(EmptyMap, DevA, AuthorizedDevice(DevA, PairName, 0)),
     settings |-> DefaultSettings]
\* a config.json that lists device a but has no secret_key entry
KeylessConfig == [EarlierConfig EXCEPT !.secret_key = None]
\* the auth token device a holds from that earlier run
EarlierToken == create_auth_token(DevA, "K0", 0)

(* --------------------------- the state --------------------------------- *)
VARIABLES
    server,           \* AppState.server: 0 (None) or the transport it holds
    server_task,      \* AppState.server_task: 0 (None) or the transport whose task it holds
    connection_info,  \* AppState.connection_info: Option<ConnectionInfo>
    starting,         \* AppState.starting
    appCfg,           \* AppState.config, the Supervisor's AppConfig
    disk,             \* config.json
    diskOk,           \* whether config.json can be written in this run
    numT,             \* WebSocketServer instances created so far
    token,            \* token[t]: WebSocketServer.token
    clients,          \* clients[t]: the session table, client_id -> ClientInfo
    next_client_id,   \* next_client_id[t]
    shutdown_tx,      \* shutdown_tx[t]: TRUE when the signal sender is installed
    tconfig,          \* tconfig[t]: WebSocketServer.config, the transport's AppConfig
    task,             \* task[t]: the transport task is "new" (not spawned yet), "spawned",
                      \* "listening" or "ended"
    conns,            \* conns[c]: the sockets accepted, [t, id, open]
    outbound,         \* outbound[c]: frames enqueued on the socket's outbound queue so far
    delivery,         \* delivery[t]: what was enqueued on the barcode channel of t
    msgCount,         \* items read from the sockets; also the clock (chrono::Utc::now)
    cmdCount,         \* Supervisor commands invoked
    keyGen,           \* calls of generate_secret_key so far
    last,             \* the operation that made the last step and what it answered
    paired,           \* devices that paired and were not revoked since
    revoked,          \* devices revoked and not paired again since
    via,              \* via[t]: the command that created transport t
    issued,           \* auth tokens put in a pair_ack: [dev, tok, t, sent]
    minted,           \* the last create_auth_token call: None or Some([dev, key, tok])
    verdict,          \* the last validate_auth_token call on minted: None or
                      \* Some([dev, key, ok])
    calls,            \* calls[i]: a start_server or regenerate_token invocation that
                      \* runs step by step, [op, pc, t, tok, ret]
    pending,          \* pending[p]: a socket the accept loop accepted, [t, id, reg]
    kbd,              \* one keyboard::type_barcode call: its environment and result
    inj,              \* the injector: Delivery Channel, blocking tasks, clipboard
    lk                \* lk[h]: a thread that runs one handler or command lock by lock

vars == <<server, server_task, connection_info, starting, appCfg, disk, diskOk, numT,
          token, clients, next_client_id, shutdown_tx, tconfig, task, conns, outbound,
          delivery, msgCount, cmdCount, keyGen, last, paired, revoked, via, issued,
          minted, verdict, calls, pending, kbd, lk, inj>>

fineVars == <<calls, pending, kbd, lk, inj>>
supVars == <<server, server_task, connection_info, starting, numT, token,
             next_client_id, shutdown_tx, task, via, diskOk, minted, verdict,
             fineVars>>
ghostVars == <<paired, revoked, issued>>
tokVars == <<minted, verdict>>

Transports == 1..numT
Conns == 1..Len(conns)

(* ------------------------- what a step reports ------------------------- *)
\* a server-originated frame; absent JSON keys are None
Msg(action, status, message, auth_token, device_id, client_id, barcode) ==
    [action |-> action, status |-> status, message |-> message,
     auth_token |-> auth_token, device_id |-> device_id, clientId |-> client_id,
     barcode |-> barcode]

ErrorMsg(message) == Msg("error", None, Some(message), None, None, None, None)

RetOk(qr) == [ok |-> TRUE, err |-> "", qr |-> qr]
RetErr(e) == [ok |-> FALSE, err |-> e, qr |-> None]

\* op: the operation; c: its socket (0: none); dev: the device id it names;
\* branch: the path taken in the handler; reply: the frame it answered with;
\* sent: whether that frame was enqueued; ret: what a Supervisor command returned
\* rules: for a scan, which of the three validation rules of the protocol held when
\* it arrived (history only, no handler reads it); effects: for an accepted scan,
\* the channels it enqueued on, in program order
Step(op, c, dev, branch, reply, sent, ret) ==
    [op |-> op, c |-> c, dev |-> dev, branch |-> branch, reply |-> reply,
     sent |-> sent, ret |-> ret, rules |-> {}, effects |-> <<>>]
Cmd(op, ret) == Step(op, 0, None, "", None, FALSE, ret)

(* ------------------------------- Init ---------------------------------- *)
InitServer ==
    /\ server = 0
    /\ server_task = 0
    /\ connection_info = None
    /\ starting = FALSE
    /\ disk \in {DefaultConfig, EarlierConfig, KeylessConfig}
    /\ diskOk \in BOOLEAN
    \* an unwritable file is followed from a fresh installation only
    /\ diskOk \/ disk = DefaultConfig
    /\ appCfg = disk
    /\ numT = 0
    /\ token = <<>>
    /\ clients = <<>>
    /\ next_client_id = <<>>
    /\ shutdown_tx = <<>>
    /\ tconfig = <<>>
    /\ task = <<>>
    /\ conns = <<>>
    /\ outbound = <<>>
    /\ delivery = <<>>
    /\ msgCount = 0
    /\ cmdCount = 0
    /\ keyGen = 0
    /\ last = Cmd("init", RetOk(None))
    /\ paired = DOMAIN disk.authorized_devices
    /\ revoked = {}
    /\ via = <<>>
    /\ issued = {}

\* no token call on its own
NoTokens == minted = None /\ verdict = None
\* no command runs step by step and no socket waits to be registered
NoCalls == calls = <<>> /\ pending = <<>>
\* no type_barcode call
NoKbd == kbd = None
\* no thread runs lock by lock
NoLocks == lk = <<>>
\* no barcode is on its way to the keyboard
NoInj == inj = None

Init ==
    /\ InitServer
    /\ NoTokens
    /\ NoCalls
    /\ NoKbd
    /\ NoLocks
    /\ NoInj

(* --------------------------- qr_service.rs ----------------------------- *)
\* generate_token: the n-th master token drawn
generate_token(n) == "M" \o ToString(n)

(* ------------------------------ lib.rs --------------------------------- *)
\* NewConnectionInfo, had it copied the Supervisor's secret key into the QR payload
ConnectionInfoWithKey(ip, tok) ==
    [ip |-> ip, port |-> Port, token |-> tok, secret_key |-> appCfg.secret_key]

\* the ConnectionInfo start_server assembles
NewConnectionInfo(ip, tok) ==
    [ip |-> ip, port |-> Port, token |-> tok, secret_key |-> None]

\* storage::save: the file holds cfg when the write succeeds
save(cfg) == IF diskOk THEN cfg ELSE disk

\* WebSocketServer::shutdown on the tables cl, sh, tk: the signal is sent when the
\* sender is installed, which ends the accept loop; the session table is cleared
ShutdownClients(cl, t) == [cl EXCEPT ![t] = EmptyMap]
ShutdownSignal(sh, t) == [sh EXCEPT ![t] = FALSE]
ShutdownTask(tk, sh, t) == IF sh[t] THEN [tk EXCEPT ![t] = "ended"] ELSE tk
\* JoinHandle::abort
AbortTask(tk, t) == [tk EXCEPT ![t] = "ended"]

StartOutcomes == {"ok", "ip_err", "qr_err"}

\* start_server, entered with the server tables srv, tsk, cl, sh, tk
StartServer(srv, tsk, cl, sh, tk, outcome, op) ==
    IF starting
    THEN \* already starting: sleep, then answer from connection_info
        /\ server' = srv /\ server_task' = tsk /\ clients' = cl
        /\ shutdown_tx' = sh /\ task' = tk
        /\ last' = Cmd(op,
                        IF IsSome(connection_info)
                            THEN IF outcome = "qr_err"
                                    THEN RetErr("Failed to generate QR code")
                                 ELSE RetOk(connection_info)
                        ELSE RetErr("Server is already starting"))
        /\ UNCHANGED <<connection_info, starting, numT, token, next_client_id,
                       tconfig, delivery, via>>
    ELSE
        LET stopping == srv # 0
            cl1 == IF stopping THEN ShutdownClients(cl, srv) ELSE cl
            sh1 == IF stopping THEN ShutdownSignal(sh, srv) ELSE sh
            tk1 == IF stopping THEN ShutdownTask(tk, sh, srv) ELSE tk
            tk2 == IF stopping /\ tsk # 0 THEN AbortTask(tk1, tsk) ELSE tk1
            tsk1 == IF stopping THEN 0 ELSE tsk
            t == numT + 1
            tok == generate_token(t)
            ci == NewConnectionInfo(LocalIp, tok)
        IN  IF outcome # "ok"
            THEN \* get_local_ip()? or generate_qr_code()? returns early
                /\ starting' = TRUE
                /\ server' = 0 /\ server_task' = tsk1
                /\ clients' = cl1 /\ shutdown_tx' = sh1 /\ task' = tk2
                /\ last' = Cmd(op,
                                IF outcome = "ip_err"
                                    THEN RetErr("Failed to get local IP")
                                ELSE RetErr("Failed to generate QR code"))
                /\ UNCHANGED <<connection_info, numT, token, next_client_id,
                               tconfig, delivery, via>>
            ELSE
                /\ numT < MaxTransports
                /\ connection_info' = Some(ci)
                /\ numT' = t
                /\ token' = Append(token, tok)
                /\ tconfig' = Append(tconfig, appCfg)
                /\ clients' = Append(cl1, EmptyMap)
                /\ next_client_id' = Append(next_client_id, 0)
                /\ shutdown_tx' = Append(sh1, FALSE)
                /\ delivery' = Append(delivery, <<>>)
                /\ task' = Append(tk2, "spawned")
                /\ via' = Append(via, op)
                /\ server' = t
                /\ server_task' = t
                /\ starting' = FALSE
                /\ last' = Cmd(op, RetOk(Some(ci)))

start_server(outcome) ==
    /\ cmdCount < MaxCmds
    /\ cmdCount' = cmdCount + 1
    /\ StartServer(server, server_task, clients, shutdown_tx, task, outcome, "start")
    /\ UNCHANGED <<appCfg, disk, diskOk, tokVars, fineVars, conns, outbound, msgCount, keyGen, ghostVars>>

\* the transport task reaches WebSocketServer::start: the shutdown sender is
\* installed and the accept loop runs
TaskRun(t) ==
    /\ t \in Transports
    /\ task[t] = "spawned"
    \* bind_with_graceful_shutdown panics when another listener holds the port
    /\ task' = [task EXCEPT ![t] = IF \E u \in Transports : task[u] = "listening"
                                       THEN "ended"
                                   ELSE "listening"]
    /\ shutdown_tx' = [shutdown_tx EXCEPT ![t] = TRUE]
    /\ last' = Cmd("task_run", RetOk(None))
    /\ UNCHANGED <<server, server_task, connection_info, starting, appCfg, disk, diskOk, tokVars, fineVars,
                   cmdCount, numT,
                   token, clients, next_client_id, tconfig, conns, outbound, delivery,
                   msgCount, keyGen, via, ghostVars>>

stop_server ==
    /\ cmdCount < MaxCmds
    /\ cmdCount' = cmdCount + 1
    /\ IF server = 0
       THEN /\ last' = Cmd("stop", RetErr("Server is not running"))
            /\ UNCHANGED <<server, server_task, connection_info, clients, shutdown_tx,
                           task>>
       ELSE /\ clients' = ShutdownClients(clients, server)
            /\ shutdown_tx' = ShutdownSignal(shutdown_tx, server)
            /\ task' = LET tk1 == ShutdownTask(task, shutdown_tx, server)
                       IN  IF server_task # 0 THEN AbortTask(tk1, server_task) ELSE tk1
            /\ server_task' = 0
            /\ server' = 0
            /\ connection_info' = None
            /\ last' = Cmd("stop", RetOk(None))
    /\ UNCHANGED <<starting, appCfg, disk, diskOk, tokVars, fineVars, numT, token, next_client_id, tconfig, conns,
                   outbound, delivery, msgCount, keyGen, via, ghostVars>>

regenerate_token(outcome) ==
    LET cl1 == IF server # 0 THEN ShutdownClients(clients, server) ELSE clients
        sh1 == IF server # 0 THEN ShutdownSignal(shutdown_tx, server) ELSE shutdown_tx
        tk1 == IF server # 0 THEN ShutdownTask(task, shutdown_tx, server) ELSE task
        tk2 == IF server_task # 0 THEN AbortTask(tk1, server_task) ELSE tk1
    IN  /\ cmdCount < MaxCmds
        /\ cmdCount' = cmdCount + 1
        /\ StartServer(0, 0, cl1, sh1, tk2, outcome, "regenerate")
        /\ UNCHANGED <<appCfg, disk, diskOk, tokVars, fineVars, conns, outbound, msgCount, keyGen, ghostVars>>

revoke_device(device_id) ==
    /\ cmdCount < MaxCmds
    /\ cmdCount' = cmdCount + 1
    /\ appCfg' = remove_device(appCfg, device_id)
    /\ disk' = save(appCfg')
    /\ last' = Step("revoke", 0, Some(device_id), "", None, FALSE,
                    IF diskOk THEN RetOk(None) ELSE RetErr("Failed to write config"))
    /\ paired' = IF diskOk THEN paired \ {device_id} ELSE paired
    /\ revoked' = IF diskOk THEN revoked \cup {device_id} ELSE revoked
    /\ UNCHANGED <<supVars, clients, tconfig, conns, outbound, delivery, msgCount,
                   keyGen, issued>>

revoke_all ==
    /\ cmdCount < MaxCmds
    /\ cmdCount' = cmdCount + 1
    /\ appCfg' = revoke_all_devices(appCfg)
    /\ disk' = save(appCfg')
    /\ last' = Cmd("revoke_all",
                    IF diskOk THEN RetOk(None) ELSE RetErr("Failed to write config"))
    /\ paired' = IF diskOk THEN {} ELSE paired
    /\ revoked' = IF diskOk THEN revoked \cup DeviceIds ELSE revoked
    /\ UNCHANGED <<supVars, clients, tconfig, conns, outbound, delivery, msgCount,
                   keyGen, issued>>

update_settings(settings) ==
    /\ cmdCount < MaxCmds
    /\ cmdCount' = cmdCount + 1
    /\ appCfg' = [appCfg EXCEPT !.settings = settings]
    /\ disk' = save(appCfg')
    /\ last' = Cmd("update_settings",
                    IF diskOk THEN RetOk(None) ELSE RetErr("Failed to write config"))
    /\ UNCHANGED <<supVars, clients, tconfig, conns, outbound, delivery, msgCount,
                   keyGen, ghostVars>>

(* ---------------------------- websocket.rs ----------------------------- *)
\* NewClient, had a session been created authenticated
NewClientAuthenticated ==
    [device_id |-> None, device_name |-> None, authenticated |-> TRUE]
NewClient == [device_id |-> None, device_name |-> None, authenticated |-> FALSE]

TransportOf(c) == conns[c].t
ClientIdOf(c) == conns[c].id
\* the socket's session is in the session table of its transport
InTable(c) == ClientIdOf(c) \in DOMAIN clients[TransportOf(c)]

\* send_to_client, had it dropped every frame
SendNothing(c, message) == outbound

\* send_to_client: the frame is enqueued only when the client is in the session
\* table; the frame itself is reported in last.reply
send_to_client(c, message) ==
    IF InTable(c) THEN [outbound EXCEPT ![c] = @ + 1] ELSE outbound

\* what the handler of a frame on socket c reports
Frame(op, c, dev, branch, reply) ==
    Step(op, c, dev, branch, Some(reply), InTable(c), RetOk(None))

remove_previous_device_connection(tbl, device_id, current_client_id) ==
    LET old_client_ids == {id \in DOMAIN tbl :
                              id # current_client_id /\ tbl[id].device_id = Some(device_id)}
    IN  [id \in (DOMAIN tbl) \ old_client_ids |-> tbl[id]]

\* UpdateClient, had it stamped the device without setting authenticated
UpdateClientUnauthenticated(tbl, client_id, device_id, device_name) ==
    IF client_id \in DOMAIN tbl
        THEN [tbl EXCEPT ![client_id] = [device_id |-> Some(device_id),
                                          device_name |-> device_name,
                                          authenticated |-> @.authenticated]]
    ELSE tbl

\* if let Some(client) = clients.get_mut(&client_id) { ... }
UpdateClient(tbl, client_id, device_id, device_name) ==
    IF client_id \in DOMAIN tbl
        THEN [tbl EXCEPT ![client_id] = [device_id |-> Some(device_id),
                                          device_name |-> device_name,
                                          authenticated |-> TRUE]]
    ELSE tbl

\* get_connected_count, had it counted the authenticated sockets
ConnectedSockets(t) ==
    Cardinality({i \in DOMAIN clients[t] : clients[t][i].authenticated})

get_connected_count(t) ==
    Cardinality({clients[t][id].device_id : id \in
                    {i \in DOMAIN clients[t] : clients[t][i].authenticated
                                               /\ IsSome(clients[t][i].device_id)}})

\* the counter, had `*id += 1` been left out
SameClientId(n) == n

\* *id += 1
NextClientId(n) == n + 1

\* handle_connection up to its read loop: a socket is accepted by a live accept loop
Open(t) ==
    /\ t \in Transports
    /\ task[t] = "listening"
    /\ Len(conns) < MaxConns
    /\ next_client_id' = [next_client_id EXCEPT ![t] = NextClientId(@)]
    /\ clients' = [clients EXCEPT ![t] = MapPut(@, next_client_id[t], NewClient)]
    /\ conns' = Append(conns, [t |-> t, id |-> next_client_id[t], open |-> TRUE])
    /\ outbound' = Append(outbound, 0)
    /\ last' = Step("open", Len(conns) + 1, None, "", None, FALSE, RetOk(None))
    /\ UNCHANGED <<server, server_task, connection_info, starting, appCfg, disk, diskOk, tokVars, fineVars,
                   cmdCount, numT,
                   token, shutdown_tx, tconfig, task, delivery, msgCount, keyGen, via,
                   ghostVars>>

\* the read loop can take its next item from socket c: a frame, or the end of the
\* stream
CanRead(c) == c \in Conns /\ conns[c].open /\ msgCount < MaxMsgs

\* the read loop ends (peer closed, or socket error): the session is removed
Close(c) ==
    /\ CanRead(c)
    /\ msgCount' = msgCount + 1
    /\ conns' = [conns EXCEPT ![c].open = FALSE]
    /\ clients' = [clients EXCEPT ![TransportOf(c)] = MapDel(@, ClientIdOf(c))]
    /\ last' = Step("close", c, None, "", None, FALSE, RetOk(None))
    /\ UNCHANGED <<supVars, cmdCount, appCfg, disk, tconfig, outbound, delivery,
                   keyGen, ghostVars>>

\* Handshake, had it marked the session authenticated
HandshakeAuthenticates(c) ==
    /\ CanRead(c)
    /\ LET reply == Msg("handshake_ack", Some("connected"), None, None, None,
                        Some(ClientIdOf(c)), None)
       IN  /\ outbound' = send_to_client(c, reply)
           /\ last' = Frame("handshake", c, None, "", reply)
    /\ msgCount' = msgCount + 1
    /\ clients' = [clients EXCEPT ![TransportOf(c)] =
                        [id \in DOMAIN @ |->
                            IF id = ClientIdOf(c) THEN [@[id] EXCEPT !.authenticated = TRUE]
                            ELSE @[id]]]
    /\ UNCHANGED <<supVars, cmdCount, appCfg, disk, tconfig, conns, delivery, keyGen,
                   ghostVars>>

Handshake(c) ==
    /\ CanRead(c)
    /\ LET reply == Msg("handshake_ack", Some("connected"), None, None, None,
                        Some(ClientIdOf(c)), None)
       IN  /\ outbound' = send_to_client(c, reply)
           /\ last' = Frame("handshake", c, None, "", reply)
    /\ msgCount' = msgCount + 1
    /\ UNCHANGED <<supVars, cmdCount, appCfg, disk, clients, tconfig, conns, delivery, keyGen,
                   ghostVars>>

\* frames the read loop settles itself: text that is not JSON, JSON whose action
\* is unknown, and a known action whose body does not deserialize
FrameKinds == {"not_json", "unknown_action", "bad_pair", "bad_reconnect", "bad_scan"}

\* the message of the send_error that answers a frame of that kind, if any
FormatError(kind) ==
    IF kind = "bad_pair" THEN Some("Invalid pair request format")
    ELSE IF kind = "bad_reconnect" THEN Some("Invalid reconnect request format")
    ELSE IF kind = "bad_scan" THEN Some("Invalid scan message format")
    ELSE None

OtherFrame(c, kind) ==
    /\ CanRead(c)
    /\ msgCount' = msgCount + 1
    /\ IF IsSome(FormatError(kind))
       THEN LET reply == ErrorMsg(Unwrap(FormatError(kind)))
            IN  /\ outbound' = send_to_client(c, reply)
                /\ last' = Frame("frame", c, None, kind, reply)
       ELSE /\ outbound' = outbound
            /\ last' = Step("frame", c, None, kind, None, FALSE, RetOk(None))
    /\ UNCHANGED <<supVars, cmdCount, appCfg, disk, clients, tconfig, conns, delivery,
                   keyGen, ghostVars>>

handle_pair_request(c, device_id, master_token) ==
    LET t == TransportOf(c)
        id == ClientIdOf(c)
        now == msgCount
    IN  /\ CanRead(c)
        /\ msgCount' = msgCount + 1
        /\ IF master_token # token[t]
           THEN LET reply == ErrorMsg("Invalid pairing token")
                IN  /\ outbound' = send_to_client(c, reply)
                    /\ last' = Frame("pair", c, Some(device_id), "bad_token", reply)
                    /\ UNCHANGED <<disk, clients, tconfig, keyGen, ghostVars>>
           ELSE LET cfg0 == tconfig[t]
                    gen == ~IsSome(cfg0.secret_key)
                    cfg1 == IF gen
                               THEN [cfg0 EXCEPT !.secret_key =
                                        Some(generate_secret_key(keyGen + 1))]
                            ELSE cfg0
                    secret_key == Unwrap(cfg1.secret_key)
                    auth_token == create_auth_token(device_id, secret_key, now)
                    cfg2 == add_device(cfg1, AuthorizedDevice(device_id, PairName, now))
                    reply == Msg("pair_ack", Some("paired"), None, Some(auth_token),
                                 Some(device_id), None, None)
                IN  /\ keyGen' = IF gen THEN keyGen + 1 ELSE keyGen
                    /\ tconfig' = [tconfig EXCEPT ![t] = cfg2]
                    /\ disk' = save(cfg2)
                    /\ clients' = [clients EXCEPT ![t] =
                            UpdateClient(
                                remove_previous_device_connection(@, device_id, id),
                                id, device_id, Some(PairName))]
                    /\ outbound' = send_to_client(c, reply)
                    /\ last' = Frame("pair", c, Some(device_id), "paired", reply)
                    /\ paired' = paired \cup {device_id}
                    /\ revoked' = revoked \ {device_id}
                    /\ issued' = issued \cup
                                    {[dev |-> device_id, tok |-> auth_token, t |-> t,
                                      sent |-> InTable(c)]}
        /\ UNCHANGED <<supVars, cmdCount, appCfg, conns, delivery>>

ReconnectAck(status, message) ==
    Msg("reconnect_ack", Some(status), Some(message), None, None, None, None)

handle_reconnect_request(c, device_id, auth_token) ==
    LET t == TransportOf(c)
        id == ClientIdOf(c)
        now == msgCount
        cfg == tconfig[t]
        refusal ==
            IF ~is_device_authorized(cfg, device_id)
                THEN Some(ReconnectAck("unauthorized",
                                       "Device not authorized. Please pair again."))
            ELSE IF ~IsSome(cfg.secret_key)
                THEN Some(ErrorMsg("Server configuration error"))
            ELSE IF ~validate_auth_token(auth_token, device_id, Unwrap(cfg.secret_key))
                THEN Some(ReconnectAck("invalid_token",
                                       "Invalid auth token. Please pair again."))
            ELSE None
    IN  /\ CanRead(c)
        /\ msgCount' = msgCount + 1
        /\ IF IsSome(refusal)
           THEN /\ outbound' = send_to_client(c, Unwrap(refusal))
                /\ last' = Frame("reconnect", c, Some(device_id), "refused", Unwrap(refusal))
                /\ UNCHANGED <<disk, clients, tconfig>>
           ELSE LET cfg1 == [cfg EXCEPT !.authorized_devices[device_id].last_seen = now]
                    device_name == Some(cfg1.authorized_devices[device_id].device_name)
                    reply == Msg("reconnect_ack", Some("connected"), None, None,
                                 Some(device_id), None, None)
                IN  /\ tconfig' = [tconfig EXCEPT ![t] = cfg1]
                    /\ disk' = save(cfg1)
                    /\ clients' = [clients EXCEPT ![t] =
                            UpdateClient(
                                remove_previous_device_connection(@, device_id, id),
                                id, device_id, device_name)]
                    /\ outbound' = send_to_client(c, reply)
                    /\ last' = Frame("reconnect", c, Some(device_id), "connected", reply)
        /\ UNCHANGED <<supVars, cmdCount, appCfg, conns, delivery, keyGen, ghostVars>>

\* the three validation rules of a scan, each taken alone
Rule1(c, device_id) ==
    /\ InTable(c)
    /\ clients[TransportOf(c)][ClientIdOf(c)].authenticated
    /\ device_id \in DOMAIN tconfig[TransportOf(c)].authorized_devices
Rule2(c, device_id, auth_token) ==
    /\ IsSome(auth_token)
    /\ device_id \in DOMAIN tconfig[TransportOf(c)].authorized_devices
    /\ IsSome(tconfig[TransportOf(c)].secret_key)
    /\ validate_auth_token(Unwrap(auth_token), device_id,
                           Unwrap(tconfig[TransportOf(c)].secret_key))
Rule3(c, tok) == tok = Some(token[TransportOf(c)])

RulesHolding(c, device_id, tok, auth_token) ==
    (IF Rule1(c, device_id) THEN {1} ELSE {})
    \cup (IF Rule2(c, device_id, auth_token) THEN {2} ELSE {})
    \cup (IF Rule3(c, tok) THEN {3} ELSE {})

\* ScanValid, had the last branch accepted any token without comparing it
ScanValidAnyToken(c, device_id, tok, auth_token) ==
    LET t == TransportOf(c)
        cfg == tconfig[t]
        is_authenticated ==
            IF InTable(c) THEN clients[t][ClientIdOf(c)].authenticated ELSE FALSE
    IN  IF is_authenticated
            THEN is_device_authorized(cfg, device_id)
        ELSE IF IsSome(auth_token)
            THEN IF IsSome(cfg.secret_key)
                    THEN /\ is_device_authorized(cfg, device_id)
                         /\ validate_auth_token(Unwrap(auth_token), device_id,
                                                Unwrap(cfg.secret_key))
                 ELSE FALSE
        ELSE IsSome(tok)

\* the `valid` of handle_scan_message
ScanValid(c, device_id, tok, auth_token) ==
    LET t == TransportOf(c)
        cfg == tconfig[t]
        is_authenticated ==
            IF InTable(c) THEN clients[t][ClientIdOf(c)].authenticated ELSE FALSE
    IN  IF is_authenticated
            THEN is_device_authorized(cfg, device_id)
        ELSE IF IsSome(auth_token)
            THEN IF IsSome(cfg.secret_key)
                    THEN /\ is_device_authorized(cfg, device_id)
                         /\ validate_auth_token(Unwrap(auth_token), device_id,
                                                Unwrap(cfg.secret_key))
                 ELSE FALSE
        ELSE IF IsSome(tok)
            THEN Unwrap(tok) = token[t]
        ELSE FALSE

BarcodeMessage(barcode, device_id, device_name) ==
    [barcode |-> barcode, device_id |-> device_id, device_name |-> device_name]

handle_scan_message(c, device_id, device_name, payload, tok, auth_token) ==
    LET t == TransportOf(c)
        id == ClientIdOf(c)
    IN  /\ CanRead(c)
        /\ msgCount' = msgCount + 1
        /\ IF ~IsSome(payload)
           THEN LET reply == ErrorMsg("Missing payload")
                IN  /\ outbound' = send_to_client(c, reply)
                    /\ last' = [Frame("scan", c, Some(device_id), "no_payload", reply)
                                    EXCEPT !.rules = RulesHolding(c, device_id, tok,
                                                                  auth_token)]
                    /\ UNCHANGED <<clients, delivery>>
           ELSE IF ~ScanValid(c, device_id, tok, auth_token)
           THEN LET reply == ErrorMsg("Invalid token")
                IN  /\ outbound' = send_to_client(c, reply)
                    /\ last' = [Frame("scan", c, Some(device_id), "invalid", reply)
                                    EXCEPT !.rules = RulesHolding(c, device_id, tok,
                                                                  auth_token)]
                    /\ UNCHANGED <<clients, delivery>>
           ELSE LET reply == Msg("scan_ack", Some("received"), None, None, None, None,
                                 payload)
                IN  /\ clients' = [clients EXCEPT ![t] =
                            UpdateClient(@, id, device_id, device_name)]
                    /\ outbound' = send_to_client(c, reply)
                    /\ delivery' = [delivery EXCEPT ![t] =
                            Append(@, BarcodeMessage(Unwrap(payload), device_id,
                                                     device_name))]
                    /\ last' = [Frame("scan", c, Some(device_id), "accepted", reply)
                                    EXCEPT !.rules = RulesHolding(c, device_id, tok,
                                                                  auth_token),
                                           !.effects =
                                                (IF InTable(c) THEN <<"outbound">>
                                                 ELSE <<>>) \o <<"delivery">>]
        /\ UNCHANGED <<supVars, cmdCount, appCfg, disk, tconfig, conns, keyGen, ghostVars>>

(* ------------------------- what clients can send ----------------------- *)
\* master tokens a phone may have read from a QR code, and a wrong one
ClientMasterTokens == {token[t] : t \in Transports} \cup {WrongToken}
\* auth tokens a phone may hold: issued in a pair_ack, kept from an earlier run, made up
ClientAuthTokens == {i.tok : i \in issued} \cup {EarlierToken, GarbageToken}

(* ------------------------------- Next ---------------------------------- *)
Next ==
    \/ \E o \in StartOutcomes : start_server(o)
    \/ \E t \in Transports : TaskRun(t)
    \/ stop_server
    \/ \E o \in StartOutcomes : regenerate_token(o)
    \/ \E d \in DeviceIds : revoke_device(d)
    \/ revoke_all
    \/ \E s \in {DefaultSettings, OtherSettings} : update_settings(s)
    \/ \E t \in Transports : Open(t)
    \/ \E c \in Conns : Close(c)
    \/ \E c \in Conns : Handshake(c)
    \/ \E c \in Conns, k \in FrameKinds : OtherFrame(c, k)
    \/ \E c \in Conns, d \in DeviceIds, m \in ClientMasterTokens :
            handle_pair_request(c, d, m)
    \/ \E c \in Conns, d \in DeviceIds, a \in ClientAuthTokens :
            handle_reconnect_request(c, d, a)
    \/ \E c \in Conns, d \in DeviceIds, n \in ScanNames, p \in {None, Some(Barcode)},
          k \in {None} \cup {Some(m) : m \in ClientMasterTokens},
          a \in {None} \cup {Some(x) : x \in ClientAuthTokens} :
            handle_scan_message(c, d, n, p, k, a)

Spec == Init /\ [][Next]_vars

(* --------------- create_auth_token / validate_auth_token --------------- *)
\* the two functions on their own, over device ids that may hold the separator
IdAtoms == {"a", "b", ":"}
AuthIds == UNION {[1..n -> IdAtoms] : n \in 1..MaxIdLen}
AuthKeys == {generate_secret_key(1), generate_secret_key(2)}

InitAuth ==
    /\ InitServer
    /\ disk = DefaultConfig
    /\ diskOk
    /\ NoTokens
    /\ NoCalls
    /\ NoKbd
    /\ NoLocks
    /\ NoInj

\* let token = create_auth_token(device_id, secret_key)
MintToken(device_id, secret_key) ==
    /\ minted' = Some([dev |-> device_id, key |-> secret_key,
                       tok |-> create_auth_token(device_id, secret_key, 0)])
    /\ verdict' = None
    /\ UNCHANGED <<appCfg, disk, clients, tconfig, conns, outbound, delivery, msgCount,
                   cmdCount, keyGen, last, ghostVars,
                   server, server_task, connection_info, starting, numT, token,
                   next_client_id, shutdown_tx, task, via, diskOk, fineVars>>

\* validate_auth_token(&token, expected_device_id, secret_key)
CheckToken(expected_device_id, secret_key) ==
    /\ IsSome(minted)
    /\ verdict' = Some([dev |-> expected_device_id, key |-> secret_key,
                        ok |-> validate_auth_token(Unwrap(minted).tok,
                                                   expected_device_id, secret_key)])
    /\ UNCHANGED <<appCfg, disk, clients, tconfig, conns, outbound, delivery, msgCount,
                   cmdCount, keyGen, last, ghostVars, minted,
                   server, server_task, connection_info, starting, numT, token,
                   next_client_id, shutdown_tx, task, via, diskOk, fineVars>>

NextAuth ==
    \/ \E d \in AuthIds, k \in AuthKeys : MintToken(d, k)
    \/ \E d \in AuthIds, k \in AuthKeys : CheckToken(d, k)

SpecAuth == InitAuth /\ [][NextAuth]_vars

(* ------- start_server and regenerate_token, one critical section at a time ------- *)
\* start_server and regenerate_token invocations that run step by step in one run
MaxCalls == 3

\* an invocation: the command, where it stands, the transport it created (0: none
\* yet), the master token it drew, and what it returned (None: still running)
Call(op, pc) == [op |-> op, pc |-> pc, t |-> 0, tok |-> "", ret |-> None]

Goto(i, pc) == calls' = [calls EXCEPT ![i].pc = pc]
Return(i, ret) ==
    /\ calls' = [calls EXCEPT ![i].pc = "done", ![i].ret = Some(ret)]
    /\ last' = Cmd(calls[i].op, ret)

\* what no step of a command touches
restVars == <<appCfg, disk, diskOk, conns, outbound, msgCount, cmdCount, keyGen,
              ghostVars, tokVars, kbd, lk, inj>>
\* the tables of the transports
tableVars == <<numT, token, clients, next_client_id, shutdown_tx, tconfig, task,
               delivery, via>>

InitConc ==
    /\ InitServer
    /\ disk = DefaultConfig
    /\ diskOk
    /\ NoTokens
    /\ NoCalls
    /\ NoKbd
    /\ NoLocks
    /\ NoInj

\* the frontend invokes start_server or regenerate_token
Invoke(op) ==
    /\ Len(calls) < MaxCalls
    /\ calls' = Append(calls, Call(op, IF op = "regenerate" THEN "regen_stop"
                                       ELSE "flag"))
    /\ UNCHANGED <<restVars, tableVars, server, server_task, connection_info, starting,
                   last, pending>>

\* regenerate_token: take the server and shut it down, take the task and abort it
RegenStop(i) ==
    /\ i \in DOMAIN calls
    /\ calls[i].pc = "regen_stop"
    /\ clients' = IF server # 0 THEN ShutdownClients(clients, server) ELSE clients
    /\ shutdown_tx' = IF server # 0 THEN ShutdownSignal(shutdown_tx, server)
                      ELSE shutdown_tx
    /\ task' = LET tk1 == IF server # 0 THEN ShutdownTask(task, shutdown_tx, server)
                          ELSE task
               IN  IF server_task # 0 THEN AbortTask(tk1, server_task) ELSE tk1
    /\ server' = 0
    /\ server_task' = 0
    /\ Goto(i, "flag")
    /\ UNCHANGED <<restVars, numT, token, next_client_id, tconfig, delivery, via,
                   connection_info, starting, last, pending>>

\* start_server: test and set the starting flag
StartFlag(i) ==
    /\ i \in DOMAIN calls
    /\ calls[i].pc = "flag"
    /\ IF starting
       THEN Goto(i, "wait") /\ UNCHANGED starting
       ELSE starting' = TRUE /\ Goto(i, "stop_old")
    /\ UNCHANGED <<restVars, tableVars, server, server_task, connection_info, last,
                   pending>>

\* start_server, already starting: after the sleep, answer from connection_info
StartWait(i, outcome) ==
    /\ i \in DOMAIN calls
    /\ calls[i].pc = "wait"
    /\ outcome \in {"ok", "qr_err"}
    /\ IsSome(connection_info) \/ outcome = "ok"
    /\ Return(i, IF IsSome(connection_info)
                    THEN IF outcome = "qr_err"
                            THEN RetErr("Failed to generate QR code")
                         ELSE RetOk(connection_info)
                 ELSE RetErr("Server is already starting"))
    /\ UNCHANGED <<restVars, tableVars, server, server_task, connection_info, starting,
                   pending>>

\* start_server: stop the existing server, and its task, if there is a server
StartStopOld(i) ==
    /\ i \in DOMAIN calls
    /\ calls[i].pc = "stop_old"
    /\ IF server # 0
       THEN /\ clients' = ShutdownClients(clients, server)
            /\ shutdown_tx' = ShutdownSignal(shutdown_tx, server)
            /\ task' = LET tk1 == ShutdownTask(task, shutdown_tx, server)
                       IN  IF server_task # 0 THEN AbortTask(tk1, server_task) ELSE tk1
            /\ server' = 0
            /\ server_task' = 0
       ELSE UNCHANGED <<clients, shutdown_tx, task, server, server_task>>
    /\ Goto(i, "publish")
    /\ UNCHANGED <<restVars, numT, token, next_client_id, tconfig, delivery, via,
                   connection_info, starting, last, pending>>

\* start_server: draw the token, get the IP, make the QR code, publish the
\* ConnectionInfo; the two `?` return with the flag still set
StartPublish(i, outcome) ==
    /\ i \in DOMAIN calls
    /\ calls[i].pc = "publish"
    /\ outcome \in StartOutcomes
    /\ IF outcome # "ok"
       THEN /\ Return(i, IF outcome = "ip_err" THEN RetErr("Failed to get local IP")
                         ELSE RetErr("Failed to generate QR code"))
            /\ UNCHANGED connection_info
       ELSE /\ numT < MaxTransports
            /\ LET tok == generate_token(numT + 1)
               IN  /\ connection_info' = Some(NewConnectionInfo(LocalIp, tok))
                   /\ calls' = [calls EXCEPT ![i].pc = "create", ![i].tok = tok]
            /\ UNCHANGED last
    /\ UNCHANGED <<restVars, tableVars, server, server_task, starting, pending>>

\* start_server: clone the config, create the WebSocketServer, store it
StartCreate(i) ==
    /\ i \in DOMAIN calls
    /\ calls[i].pc = "create"
    /\ numT' = numT + 1
    /\ token' = Append(token, calls[i].tok)
    /\ tconfig' = Append(tconfig, appCfg)
    /\ clients' = Append(clients, EmptyMap)
    /\ next_client_id' = Append(next_client_id, 0)
    /\ shutdown_tx' = Append(shutdown_tx, FALSE)
    /\ delivery' = Append(delivery, <<>>)
    /\ task' = Append(task, "new")
    /\ via' = Append(via, calls[i].op)
    /\ server' = numT + 1
    /\ calls' = [calls EXCEPT ![i].pc = "spawn", ![i].t = numT + 1]
    /\ UNCHANGED <<restVars, server_task, connection_info, starting, last, pending>>

\* start_server: tokio::spawn of the transport task
StartSpawn(i) ==
    /\ i \in DOMAIN calls
    /\ calls[i].pc = "spawn"
    /\ task' = [task EXCEPT ![calls[i].t] = "spawned"]
    /\ Goto(i, "store_task")
    /\ UNCHANGED <<restVars, numT, token, clients, next_client_id, shutdown_tx, tconfig,
                   delivery, via, server, server_task, connection_info, starting, last,
                   pending>>

\* start_server: store the task handle
StartStoreTask(i) ==
    /\ i \in DOMAIN calls
    /\ calls[i].pc = "store_task"
    /\ server_task' = calls[i].t
    /\ Goto(i, "release")
    /\ UNCHANGED <<restVars, tableVars, server, connection_info, starting, last,
                   pending>>

\* start_server: release the starting flag and return the QR data
StartRelease(i) ==
    /\ i \in DOMAIN calls
    /\ calls[i].pc = "release"
    /\ starting' = FALSE
    /\ Return(i, RetOk(Some(NewConnectionInfo(LocalIp, calls[i].tok))))
    /\ UNCHANGED <<restVars, tableVars, server, server_task, connection_info, pending>>

\* the accept loop of transport t accepts a socket; its handler has not run yet
Accept(t) ==
    /\ t \in Transports
    /\ task[t] = "listening"
    /\ Len(pending) < MaxConns
    /\ pending' = Append(pending, [t |-> t, id |-> -1, reg |-> FALSE])
    /\ UNCHANGED <<restVars, tableVars, server, server_task, connection_info, starting,
                   last, calls>>

\* handle_connection: draw the client id under the counter's mutex
DrawId(p) ==
    /\ p \in DOMAIN pending
    /\ pending[p].id = -1
    /\ pending' = [pending EXCEPT ![p].id = next_client_id[pending[p].t]]
    /\ next_client_id' = [next_client_id EXCEPT ![pending[p].t] = NextClientId(@)]
    /\ UNCHANGED <<restVars, numT, token, clients, shutdown_tx, tconfig, task, delivery,
                   via, server, server_task, connection_info, starting, last, calls>>

\* handle_connection: insert the session into the session table, enter the read loop
Register(p) ==
    /\ p \in DOMAIN pending
    /\ pending[p].id # -1
    /\ ~pending[p].reg
    /\ pending' = [pending EXCEPT ![p].reg = TRUE]
    /\ clients' = [clients EXCEPT ![pending[p].t] = MapPut(@, pending[p].id, NewClient)]
    /\ conns' = Append(conns, [t |-> pending[p].t, id |-> pending[p].id, open |-> TRUE])
    /\ outbound' = Append(outbound, 0)
    /\ last' = Step("open", Len(conns) + 1, None, "", None, FALSE, RetOk(None))
    /\ UNCHANGED <<appCfg, disk, diskOk, msgCount, cmdCount, keyGen, ghostVars, tokVars,
                   kbd, lk, inj, numT, token, next_client_id, shutdown_tx, tconfig, task,
                   delivery, via, server, server_task, connection_info, starting, calls>>

\* the Supervisor's commands step by step, without sockets
NextSup ==
    \/ \E op \in {"start", "regenerate"} : Invoke(op)
    \/ \E i \in DOMAIN calls : RegenStop(i)
    \/ \E i \in DOMAIN calls : StartFlag(i)
    \/ \E i \in DOMAIN calls, o \in StartOutcomes : StartWait(i, o)
    \/ \E i \in DOMAIN calls : StartStopOld(i)
    \/ \E i \in DOMAIN calls, o \in StartOutcomes : StartPublish(i, o)
    \/ \E i \in DOMAIN calls : StartCreate(i)
    \/ \E i \in DOMAIN calls : StartSpawn(i)
    \/ \E i \in DOMAIN calls : StartStoreTask(i)
    \/ \E i \in DOMAIN calls : StartRelease(i)
    \/ stop_server
    \/ \E t \in Transports : TaskRun(t)

SpecSup == InitConc /\ [][NextSup]_vars

\* the accept path step by step, under commands that run one at a time
NextAccept ==
    \/ \E o \in StartOutcomes : start_server(o)
    \/ stop_server
    \/ \E o \in StartOutcomes : regenerate_token(o)
    \/ \E t \in Transports : TaskRun(t)
    \/ \E t \in Transports : Accept(t)
    \/ \E p \in DOMAIN pending : DrawId(p)
    \/ \E p \in DOMAIN pending : Register(p)
    \/ \E c \in Conns : Close(c)
    \/ \E c \in Conns : Handshake(c)
    \/ \E c \in Conns, d \in DeviceIds, m \in ClientMasterTokens :
            handle_pair_request(c, d, m)

SpecAccept == InitConc /\ [][NextAccept]_vars

\* the scheduler runs a spawned transport task and an accepted socket's handler
SpecAcceptFair ==
    /\ SpecAccept
    /\ WF_vars(\E t \in Transports : TaskRun(t))
    /\ WF_vars(\E p \in DOMAIN pending : DrawId(p))
    /\ WF_vars(\E p \in DOMAIN pending : Register(p))

(* ------------------- the mutexes, one lock at a time ------------------- *)
\* threads that run a handler or a command at the same time
MaxThreads == 2

\* the mutexes: of the transport (clients, next_client_id, shutdown_tx, config) and
\* of AppState (server, server_task, connection_info, starting, app_config)
Lock(m) == <<"lock", m>>
\* the guard is dropped
Unlock(m) == <<"unlock", m>>
\* sender.send on the outbound queue, the Delivery Channel or the shutdown signal
Send(ch) == <<"send", ch>>
\* storage::save
WriteConfig == <<"write", "config.json">>
\* .await of a sleep
Await == <<"await", "sleep">>

\* send_to_client: the guard of `clients.lock().unwrap()` in the `if let` lives to
\* the end of its block
Locks_send_to_client == <<Lock("clients"), Send("outbound"), Unlock("clients")>>

\* remove_previous_device_connection
Locks_remove_previous == <<Lock("clients"), Unlock("clients")>>

\* handle_connection before its read loop, and after it
Locks_connect ==
    <<Lock("next_client_id"), Unlock("next_client_id"), Lock("clients"),
      Unlock("clients")>>
Locks_disconnect ==
    <<Lock("clients"), Unlock("clients"), Lock("clients"), Unlock("clients")>>

\* handle_pair_request with the right master token
Locks_pair ==
    <<Lock("config"), Unlock("config"), Lock("config"), WriteConfig, Unlock("config")>>
    \o Locks_remove_previous
    \o <<Lock("clients"), Unlock("clients")>>
    \o Locks_send_to_client

\* handle_reconnect_request refusing: `cfg` is held until the return
Locks_reconnect_refused ==
    <<Lock("config")>> \o Locks_send_to_client \o <<Unlock("config")>>

\* handle_reconnect_request accepting
Locks_reconnect ==
    <<Lock("config"), Unlock("config"), Lock("config"), WriteConfig, Unlock("config")>>
    \o Locks_remove_previous
    \o <<Lock("config"), Unlock("config"), Lock("clients"), Unlock("clients")>>
    \o Locks_send_to_client

\* handle_scan_message rejecting after it looked at the config
Locks_scan_invalid ==
    <<Lock("clients"), Unlock("clients"), Lock("config"), Unlock("config")>>
    \o Locks_send_to_client

\* handle_scan_message accepting
Locks_scan ==
    <<Lock("clients"), Unlock("clients"), Lock("config"), Unlock("config"),
      Lock("clients"), Unlock("clients")>>
    \o Locks_send_to_client
    \o <<Send("delivery")>>

\* WebSocketServer::shutdown when the sender is installed
Locks_shutdown ==
    <<Lock("shutdown_tx"), Send("shutdown"), Unlock("shutdown_tx"), Lock("clients"),
      Unlock("clients")>>

\* stop_server on a running server
Locks_stop_server ==
    <<Lock("server"), Lock("server_task")>>
    \o Locks_shutdown
    \o <<Lock("connection_info"), Unlock("connection_info"), Unlock("server_task"),
         Unlock("server")>>

\* start_server that finds the flag set
Locks_start_waiting ==
    <<Lock("starting"), Unlock("starting"), Await, Lock("connection_info"),
      Unlock("connection_info")>>

\* start_server that replaces a running server
Locks_start_server ==
    <<Lock("starting"), Unlock("starting"), Lock("server"), Lock("server_task")>>
    \o Locks_shutdown
    \o <<Unlock("server_task"), Unlock("server"), Await,
         Lock("connection_info"), Unlock("connection_info"),
         Lock("app_config"), Unlock("app_config"),
         Lock("server"), Unlock("server"),
         Lock("server_task"), Unlock("server_task"),
         Lock("starting"), Unlock("starting")>>

\* regenerate_token on a running server, up to its call of start_server
Locks_regenerate_token ==
    <<Lock("server"), Lock("server_task")>>
    \o Locks_shutdown
    \o <<Unlock("server_task"), Unlock("server"), Await>>

\* revoke_device, revoke_all_devices and the first block of update_settings
Locks_revoke_device == <<Lock("app_config"), WriteConfig, Unlock("app_config")>>

\* get_server_state, had it locked the session table before the server
Locks_clients_then_server ==
    <<Lock("clients"), Lock("server"), Unlock("server"), Unlock("clients")>>

\* get_server_state and get_current_qr_data
Locks_get_server_state ==
    <<Lock("server"), Lock("clients"), Unlock("clients"), Unlock("server")>>
Locks_get_current_qr_data ==
    <<Lock("server"), Lock("connection_info"), Unlock("connection_info"),
      Unlock("server")>>

\* get_connected_devices on a running server
Locks_get_connected_devices ==
    <<Lock("server"), Lock("clients"), Unlock("clients"), Unlock("server")>>

\* get_authorized_devices and get_settings
Locks_get_authorized_devices == <<Lock("app_config"), Unlock("app_config")>>

\* WebSocketServer::start installs the shutdown sender
Locks_task_start == <<Lock("shutdown_tx"), Unlock("shutdown_tx")>>

Programs ==
    [send_to_client |-> Locks_send_to_client,
     connect |-> Locks_connect,
     disconnect |-> Locks_disconnect,
     pair |-> Locks_pair,
     reconnect_refused |-> Locks_reconnect_refused,
     reconnect |-> Locks_reconnect,
     scan_invalid |-> Locks_scan_invalid,
     scan |-> Locks_scan,
     stop_server |-> Locks_stop_server,
     start_waiting |-> Locks_start_waiting,
     start_server |-> Locks_start_server,
     regenerate_token |-> Locks_regenerate_token,
     revoke_device |-> Locks_revoke_device,
     get_server_state |-> Locks_get_server_state,
     get_current_qr_data |-> Locks_get_current_qr_data,
     get_connected_devices |-> Locks_get_connected_devices,
     get_authorized_devices |-> Locks_get_authorized_devices,
     task_start |-> Locks_task_start]

\* the operation thread h is about to perform, <<"end", "">> when it has finished
NextOp(h) ==
    IF lk[h].pc <= Len(Programs[lk[h].prog]) THEN Programs[lk[h].prog][lk[h].pc]
    ELSE <<"end", "">>
\* the mutexes some thread holds
Held == UNION {lk[h].held : h \in DOMAIN lk}

lockRest ==
    <<appCfg, disk, diskOk, conns, outbound, msgCount, cmdCount, keyGen, ghostVars,
      tokVars, kbd, inj, calls, pending, tableVars, server, server_task, connection_info,
      starting, last>>

InitLocks ==
    /\ InitServer
    /\ disk = DefaultConfig
    /\ diskOk
    /\ NoTokens
    /\ NoCalls
    /\ NoKbd
    /\ NoLocks
    /\ NoInj

\* a runtime thread starts to run a handler or a command
Run(prog) ==
    /\ Len(lk) < MaxThreads
    /\ lk' = Append(lk, [prog |-> prog, pc |-> 1, held |-> {}])
    /\ UNCHANGED lockRest

\* Mutex::lock: the thread gets the mutex when no thread holds it
Acquire(h) ==
    /\ NextOp(h)[1] = "lock"
    /\ NextOp(h)[2] \notin Held
    /\ lk' = [lk EXCEPT ![h].pc = @ + 1, ![h].held = @ \cup {NextOp(h)[2]}]
    /\ UNCHANGED lockRest

\* the guard goes out of scope
Release(h) ==
    /\ NextOp(h)[1] = "unlock"
    /\ lk' = [lk EXCEPT ![h].pc = @ + 1, ![h].held = @ \ {NextOp(h)[2]}]
    /\ UNCHANGED lockRest

\* a channel send, a write of config.json, or a suspension point
Effect(h) ==
    /\ NextOp(h)[1] \in {"send", "write", "await"}
    /\ lk' = [lk EXCEPT ![h].pc = @ + 1]
    /\ UNCHANGED lockRest

NextLocks ==
    \/ \E prog \in DOMAIN Programs : Run(prog)
    \/ \E h \in DOMAIN lk : Acquire(h)
    \/ \E h \in DOMAIN lk : Release(h)
    \/ \E h \in DOMAIN lk : Effect(h)

SpecLocks == InitLocks /\ [][NextLocks]_vars

(* ----------------------------- keyboard.rs ------------------------------ *)
\* steps of one type_barcode call that fail, at most
MaxFaults == 2

\* XDG_SESSION_TYPE: unset, or its text
SessionTypes == {None, Some("wayland"), Some("Wayland"), Some("x11")}
\* str::to_lowercase on those texts
ToLowercase(s) == IF s = "Wayland" THEN "wayland" ELSE s

\* what can fail in a call: the wl-copy command (not run, or non-zero exit),
\* Clipboard::new, get_text, set_text of the barcode, the external tool for Ctrl+V
\* and for Enter (cannot be executed / runs and exits non-zero), Enigo::new, the
\* four enigo key events, and set_text of the previous content
KbdSteps == {"wl_copy", "clipboard_new", "get_text", "set_text", "paste_spawn",
             "paste_exit", "enter_spawn", "enter_exit", "enigo_new", "ctrl_press",
             "key_v", "ctrl_release", "key_return", "restore"}
FaultSets == {f \in SUBSET KbdSteps : Cardinality(f) <= MaxFaults}

\* the environment of a call: the session type, which tools `which` finds, the text
\* the clipboard holds (None: no text), the steps that fail, and whether the Enigo
\* value built from Settings::default() releases the keys it holds when it is
\* dropped (the library decides, the caller does not ask for it)
KbdCalls ==
    [session : SessionTypes, ydotool : BOOLEAN, xdotool : BOOLEAN, wl_copy : BOOLEAN,
     clip : {None, Some("old")}, faults : FaultSets, release_on_drop : BOOLEAN,
     out : {None}]

is_wayland(e) == IsSome(e.session) /\ ToLowercase(Unwrap(e.session)) = "wayland"
is_ydotool_available(e) == e.ydotool
is_wl_clipboard_available(e) == e.wl_copy
is_xdotool_available(e) == e.xdotool

\* what a backend did: ret, the clipboard after it, whether the barcode was written
\* to the clipboard, whether Ctrl+V and Enter were emitted with success, and the
\* backends that ran; held: the keys pressed and not released when it returned
KbdOut(ret, clip, wrote, pasted, entered, ran) ==
    [ret |-> ret, clip |-> clip, wrote |-> wrote, pasted |-> pasted,
     entered |-> entered, ran |-> ran, held |-> {}]
\* the backend returned between the press of Control and its release: Control
\* stays down unless dropping the Enigo value releases it, which fails when the
\* release of Control fails
CtrlHeld(e, out) ==
    [out EXCEPT !.held = IF e.release_on_drop /\ "ctrl_release" \notin e.faults
                            THEN {}
                         ELSE {"Control"}]

WaylandHint ==
    "Input simulation not available on Wayland without ydotool. Install with: sudo apt install ydotool"

type_barcode_ydotool(e, barcode) ==
    LET f == e.faults
        clipboard_set ==
            IF is_wl_clipboard_available(e) THEN "wl_copy" \notin f
            ELSE "clipboard_new" \notin f /\ "set_text" \notin f
        ran == <<"ydotool">>
    IN  IF ~clipboard_set
            THEN KbdOut(RetErr("Failed to set clipboard content"), e.clip, FALSE,
                        FALSE, FALSE, ran)
        ELSE IF "paste_spawn" \in f
            THEN KbdOut(RetErr("Failed to execute ydotool paste"), Some(barcode), TRUE,
                        FALSE, FALSE, ran)
        ELSE IF "enter_spawn" \in f
            THEN KbdOut(RetErr("Failed to execute ydotool enter"), Some(barcode), TRUE,
                        "paste_exit" \notin f, FALSE, ran)
        ELSE KbdOut(RetOk(None), Some(barcode), TRUE, "paste_exit" \notin f,
                    "enter_exit" \notin f, ran)

type_barcode_xdotool(e, barcode) ==
    LET f == e.faults
        ran == <<"xdotool">>
    IN  IF "clipboard_new" \in f
            THEN KbdOut(RetErr("Failed to access clipboard"), e.clip, FALSE, FALSE,
                        FALSE, ran)
        ELSE IF "set_text" \in f
            THEN KbdOut(RetErr("Failed to set clipboard"), e.clip, FALSE, FALSE, FALSE,
                        ran)
        ELSE IF "paste_spawn" \in f
            THEN KbdOut(RetErr("Failed to execute xdotool paste"), Some(barcode), TRUE,
                        FALSE, FALSE, ran)
        ELSE IF "enter_spawn" \in f
            THEN KbdOut(RetErr("Failed to execute xdotool enter"), Some(barcode), TRUE,
                        "paste_exit" \notin f, FALSE, ran)
        ELSE KbdOut(RetOk(None), Some(barcode), TRUE, "paste_exit" \notin f,
                    "enter_exit" \notin f, ran)

type_barcode_enigo(e, barcode) ==
    LET f == e.faults
        ran == <<"enigo">>
        previous_content == IF "get_text" \in f THEN None ELSE e.clip
        pasted == {"ctrl_press", "key_v", "ctrl_release"} \cap f = {}
    IN  IF "clipboard_new" \in f
            THEN KbdOut(RetErr("Failed to access clipboard"), e.clip, FALSE, FALSE,
                        FALSE, ran)
        ELSE IF "set_text" \in f
            THEN KbdOut(RetErr("Failed to set clipboard"), e.clip, FALSE, FALSE, FALSE,
                        ran)
        ELSE IF "enigo_new" \in f
            THEN KbdOut(RetErr("Failed to initialize keyboard simulator"),
                        Some(barcode), TRUE, FALSE, FALSE, ran)
        ELSE IF "ctrl_press" \in f
            THEN KbdOut(RetErr("Failed to press Ctrl"), Some(barcode), TRUE, FALSE,
                        FALSE, ran)
        ELSE IF "key_v" \in f
            THEN CtrlHeld(e, KbdOut(RetErr("Failed to press V"), Some(barcode),
                                    TRUE, FALSE, FALSE, ran))
        ELSE IF "ctrl_release" \in f
            THEN CtrlHeld(e, KbdOut(RetErr("Failed to release Ctrl"), Some(barcode),
                                    TRUE, FALSE, FALSE, ran))
        ELSE IF "key_return" \in f
            THEN KbdOut(RetErr("Failed to press Enter"), Some(barcode), TRUE, pasted,
                        FALSE, ran)
        ELSE KbdOut(RetOk(None),
                    IF IsSome(previous_content) /\ "restore" \notin f
                        THEN previous_content
                    ELSE Some(barcode),
                    TRUE, pasted, TRUE, ran)

\* type_barcode, had it tried xdotool before looking at the session type
type_barcode_xdotool_first(e, barcode) ==
    IF is_xdotool_available(e) THEN type_barcode_xdotool(e, barcode)
    ELSE IF is_wayland(e) /\ is_ydotool_available(e)
        THEN type_barcode_ydotool(e, barcode)
    ELSE type_barcode_enigo(e, barcode)

type_barcode(e, barcode) ==
    IF is_wayland(e)
        THEN IF is_ydotool_available(e) THEN type_barcode_ydotool(e, barcode)
             ELSE LET enigo_result == type_barcode_enigo(e, barcode)
                  IN  IF enigo_result.ret.ok THEN enigo_result
                      ELSE [enigo_result EXCEPT !.ret = RetErr(WaylandHint)]
    ELSE IF is_xdotool_available(e) THEN type_barcode_xdotool(e, barcode)
    ELSE type_barcode_enigo(e, barcode)

InitKbd ==
    /\ InitServer
    /\ disk = DefaultConfig
    /\ diskOk
    /\ NoTokens
    /\ NoCalls
    /\ NoLocks
    /\ NoInj
    /\ kbd \in KbdCalls

\* keyboard::type_barcode(&barcode_for_typing)
TypeBarcode ==
    /\ kbd # None
    /\ kbd.out = None
    /\ kbd' = [kbd EXCEPT !.out = Some(type_barcode(kbd, Barcode))]
    /\ UNCHANGED <<appCfg, disk, clients, tconfig, conns, outbound, delivery, msgCount,
                   cmdCount, keyGen, last, ghostVars, tokVars, calls, pending, lk, inj,
                   server, server_task, connection_info, starting, numT, token,
                   next_client_id, shutdown_tx, task, via, diskOk>>

NextKbd == TypeBarcode

SpecKbd == InitKbd /\ [][NextKbd]_vars

(* ----------- lib.rs: the consumer of the Delivery Channel -------------- *)
\* BarcodeMessages sent in a run
MaxEvents == 3

\* the barcode of the n-th BarcodeMessage sent on the Delivery Channel
BarcodeOf(n) == "B" \o ToString(n)

\* the backend type_barcode selects in this environment
Backends == {"ydotool", "xdotool", "enigo"}
\* the first step of a backend: only enigo reads the clipboard first
FirstStep(backend) == IF backend = "enigo" THEN "get_text" ELSE "set_text"

\* sent: BarcodeMessages sent so far; rx: the Delivery Channel; tasks: the closures
\* handed to spawn_blocking, each on its own blocking thread, [event, barcode, pc,
\* previous_content]; clipboard: the text the OS clipboard holds; keys: the key
\* events the focused window has received, with the text a Ctrl+V pasted
InitInject ==
    /\ InitServer
    /\ disk = DefaultConfig
    /\ diskOk
    /\ NoTokens
    /\ NoCalls
    /\ NoKbd
    /\ NoLocks
    /\ inj \in [sent : {0}, rx : {<<>>}, tasks : {<<>>}, backend : Backends,
                clipboard : {None, Some("old")}, keys : {<<>>}]

injRest ==
    <<appCfg, disk, diskOk, conns, outbound, msgCount, cmdCount, keyGen, ghostVars,
      tokVars, kbd, lk, calls, pending, tableVars, server, server_task,
      connection_info, starting, last>>

\* barcode_sender.send(barcode_msg) of an accepted scan
SendBarcode ==
    /\ inj # None
    /\ inj.sent < MaxEvents
    /\ inj' = [inj EXCEPT !.sent = @ + 1,
                          !.rx = Append(@, [event |-> inj.sent + 1,
                                            barcode |-> BarcodeOf(inj.sent + 1)])]
    /\ UNCHANGED injRest

\* barcode_rx.recv().await, then spawn_blocking of the typing closure: the consumer
\* does not await the JoinHandle and goes on to the next message
Receive ==
    /\ inj # None
    /\ inj.rx # <<>>
    /\ inj' = [inj EXCEPT !.rx = Tail(@),
                          !.tasks = Append(@, [event |-> Head(inj.rx).event,
                                               barcode |-> Head(inj.rx).barcode,
                                               pc |-> FirstStep(inj.backend),
                                               previous_content |-> None])]
    /\ UNCHANGED injRest

\* blocking task w is at step pc
At(w, pc) == inj # None /\ w \in DOMAIN inj.tasks /\ inj.tasks[w].pc = pc

\* let previous_content = clipboard.get_text().ok()
GetText(w) ==
    /\ At(w, "get_text")
    /\ inj' = [inj EXCEPT !.tasks[w].previous_content = inj.clipboard,
                          !.tasks[w].pc = "set_text"]
    /\ UNCHANGED injRest

\* clipboard.set_text(barcode), or wl-copy
SetText(w) ==
    /\ At(w, "set_text")
    /\ inj' = [inj EXCEPT !.clipboard = Some(inj.tasks[w].barcode),
                          !.tasks[w].pc = "paste"]
    /\ UNCHANGED injRest

\* Ctrl+V after the sleep: the window pastes what the clipboard holds now
Paste(w) ==
    /\ At(w, "paste")
    /\ inj' = [inj EXCEPT !.keys = Append(@, [event |-> inj.tasks[w].event,
                                               key |-> "ctrl+v",
                                               text |-> inj.clipboard]),
                          !.tasks[w].pc = "enter"]
    /\ UNCHANGED injRest

\* Enter after the sleep
Enter(w) ==
    /\ At(w, "enter")
    /\ inj' = [inj EXCEPT !.keys = Append(@, [event |-> inj.tasks[w].event,
                                               key |-> "enter",
                                               text |-> None]),
                          !.tasks[w].pc = IF inj.backend = "enigo" THEN "restore"
                                          ELSE "done"]
    /\ UNCHANGED injRest

\* if let Some(prev) = previous_content { let _ = clipboard.set_text(&prev); }
Restore(w) ==
    /\ At(w, "restore")
    /\ inj' = [inj EXCEPT !.clipboard = IF IsSome(inj.tasks[w].previous_content)
                                            THEN inj.tasks[w].previous_content
                                        ELSE @,
                          !.tasks[w].pc = "done"]
    /\ UNCHANGED injRest

NextInject ==
    \/ SendBarcode
    \/ Receive
    \/ \E w \in 1..MaxEvents : GetText(w)
    \/ \E w \in 1..MaxEvents : SetText(w)
    \/ \E w \in 1..MaxEvents : Paste(w)
    \/ \E w \in 1..MaxEvents : Enter(w)
    \/ \E w \in 1..MaxEvents : Restore(w)

SpecInject == InitInject /\ [][NextInject]_vars

(* ------------------------------- claims -------------------------------- *)
\* sessions of transport t authenticated as device d
SessionsOf(t, d) ==
    {id \in DOMAIN clients[t] :
        clients[t][id].authenticated /\ clients[t][id].device_id = Some(d)}

\* C1: in every reachable state, for every device id D, at most one session of a
\* transport's session table has authenticated = true and device_id = D.
C1_OneSessionPerDevice ==
    \A t \in Transports : \A d \in DeviceIds : Cardinality(SessionsOf(t, d)) <= 1

\* C2: once revoke_device(D) has returned Ok (and D has not paired again), a
\* reconnect for D on the running transport is answered with reconnect_ack
\* "unauthorized" and is refused.
C2_RevokedReconnectRefused ==
    (/\ last.op = "reconnect"
     /\ TransportOf(last.c) = server
     /\ Unwrap(last.dev) \in revoked)
    => /\ last.branch = "refused"
       /\ Unwrap(last.reply).action = "reconnect_ack"
       /\ Unwrap(last.reply).status = Some("unauthorized")

ConnectedAck(device_id) ==
    Msg("reconnect_ack", Some("connected"), None, None, Some(device_id), None, None)

\* C3: an auth token T issued to D in a pair_ack of an earlier transport is accepted
\* after regenerate_token: a reconnect for D carrying T on a socket of the transport
\* regenerate_token created is answered with reconnect_ack "connected".
C3_TokenSurvivesRegenerate ==
    [][\A c \in Conns : \A i \in issued :
        (/\ last'.op = "reconnect"
         /\ handle_reconnect_request(c, i.dev, i.tok)
         /\ TransportOf(c) = server
         /\ via[server] = "regenerate"
         /\ i.t < server
         /\ i.sent
         /\ i.tok # EmptyToken
         /\ i.dev \notin revoked)
        => last'.reply = Some(ConnectedAck(i.dev))]_vars

\* C4: after regenerate_token the active master token differs from every earlier
\* one, and a pair carrying another token than the active one is answered with
\* error "Invalid pairing token" and adds no AuthorizedDevice, in memory or on disk,
\* on whichever socket it arrives.
C4_OldMasterTokenRejected ==
    [][\A c \in Conns : \A d \in DeviceIds : \A m \in ClientMasterTokens :
        (/\ last'.op = "pair"
         /\ handle_pair_request(c, d, m)
         /\ server # 0
         /\ via[server] = "regenerate"
         /\ m # token[server])
        => /\ \A t \in 1..(server - 1) : token[t] # token[server]
           /\ last'.reply = Some(ErrorMsg("Invalid pairing token"))
           /\ DOMAIN disk'.authorized_devices = DOMAIN disk.authorized_devices
           /\ \A t \in Transports :
                DOMAIN tconfig'[t].authorized_devices = DOMAIN tconfig[t].authorized_devices
           /\ DOMAIN appCfg'.authorized_devices = DOMAIN appCfg.authorized_devices]_vars

\* C5: config.json holds an entry for D if and only if D has paired successfully
\* (in this run or an earlier one) and has not been revoked since. Stated for the
\* runs in which config.json is writable, where every save takes effect.
C5_PersistedIffPairedNotRevoked ==
    diskOk => DOMAIN disk.authorized_devices = paired

\* C6: when a pair is answered with pair_ack "paired" for D, config.json contains D
\* at the moment the pair_ack is enqueued.
C6_PairedIsPersisted ==
    (last.op = "pair" /\ last.branch = "paired" /\ last.sent)
    => Unwrap(last.dev) \in DOMAIN disk.authorized_devices

\* C7: a secret key is generated at most once, and the secret key on disk never
\* changes or disappears once it exists.
C7_SecretKeyStable ==
    [][/\ keyGen' <= 1
       /\ IsSome(disk.secret_key) => disk'.secret_key = disk.secret_key]_vars

\* every secret key some AppConfig of the program holds
SecretKeys ==
    {Unwrap(cfg.secret_key) :
        cfg \in {x \in {appCfg, disk} \cup {tconfig[t] : t \in Transports} :
                    IsSome(x.secret_key)}}

\* the frame m carries the string k in one of its fields
Carries(m, k) ==
    \/ m.action = k
    \/ m.status = Some(k)
    \/ m.message = Some(k)
    \/ m.barcode = Some(k)
    \/ IsSome(m.device_id) /\ \E j \in DOMAIN Unwrap(m.device_id) : Unwrap(m.device_id)[j] = k
    \/ IsSome(m.auth_token) /\ \E j \in DOMAIN Unwrap(m.auth_token).pt :
                                    Unwrap(m.auth_token).pt[j] = k

C9_AnyRuleAccepts ==
    (last.op = "scan" /\ last.branch # "no_payload")
    => (last.branch = "accepted" <=> last.rules # {})

\* a rejected scan leaves the sessions, the stores and the barcode channel alone
ScanChangesNothing ==
    /\ delivery' = delivery
    /\ clients' = clients
    /\ tconfig' = tconfig
    /\ appCfg' = appCfg
    /\ disk' = disk

\* C10 as claimed: when no rule accepts a scan, the session receives error
\* "Invalid token", no BarcodeEvent is enqueued and nothing else changes.
C10_RejectedScanInvalidToken ==
    [][(last'.op = "scan" /\ last'.rules = {})
        => /\ last'.reply = Some(ErrorMsg("Invalid token"))
           /\ last'.sent
           /\ outbound'[last'.c] = outbound[last'.c] + 1
           /\ ScanChangesNothing]_vars

\* C10 as amended: when a scan that has a payload is accepted by no rule, the only
\* reply is error "Invalid token", enqueued if and only if the session is in the
\* session table; no BarcodeEvent is enqueued and nothing else changes.
C10_RejectedScanWithPayload ==
    [][(last'.op = "scan" /\ last'.branch # "no_payload" /\ last'.rules = {})
        => /\ last'.branch = "invalid"
           /\ last'.reply = Some(ErrorMsg("Invalid token"))
           /\ last'.sent = InTable(last'.c)
           /\ outbound' = [outbound EXCEPT ![last'.c] = @ + (IF last'.sent THEN 1 ELSE 0)]
           /\ ScanChangesNothing]_vars

\* C10 witness: a scan with a payload that no rule accepts was answered with
\* "Invalid token" on a session of the table
C10_Witness ==
    /\ last.op = "scan" /\ last.branch = "invalid" /\ last.sent
    /\ last.rules = {}
    /\ last.reply = Some(ErrorMsg("Invalid token"))

\* the session of socket c after the step
SessionAfter(c) == clients'[TransportOf(c)][ClientIdOf(c)]

ScanAck(barcode) ==
    Msg("scan_ack", Some("received"), None, None, None, None, Some(barcode))

\* C11: when a scan is accepted on a session that is in the session table, the
\* session is authenticated afterwards with the scan's device_id and device_name,
\* exactly one scan_ack "received" echoing the barcode is enqueued to it, and exactly
\* one BarcodeEvent with that barcode and device_id is enqueued on the channel.
C11_AcceptedScanEffects ==
    [][(last'.op = "scan" /\ last'.branch = "accepted" /\ InTable(last'.c))
        => LET c == last'.c
               d == Unwrap(last'.dev)
               t == TransportOf(c)
           IN  /\ SessionAfter(c).authenticated
               /\ SessionAfter(c).device_id = Some(d)
               /\ \A n \in ScanNames :
                  \A k \in {None} \cup {Some(m) : m \in ClientMasterTokens} :
                  \A a \in {None} \cup {Some(x) : x \in ClientAuthTokens} :
                    handle_scan_message(c, d, n, Some(Barcode), k, a)
                    => /\ SessionAfter(c).device_name = n
                       /\ delivery'[t] = Append(delivery[t], BarcodeMessage(Barcode, d, n))
               /\ last'.reply = Some(ScanAck(Barcode))
               /\ outbound' = [outbound EXCEPT ![c] = @ + 1]
               /\ Len(delivery'[t]) = Len(delivery[t]) + 1
               /\ \A u \in Transports \ {t} : delivery'[u] = delivery[u]]_vars

\* C11 witness: a scan was accepted on a session of the table, which is now
\* authenticated, and its BarcodeEvent is on the channel
C11_Witness ==
    /\ last.op = "scan" /\ last.branch = "accepted" /\ last.sent
    /\ InTable(last.c)
    /\ clients[TransportOf(last.c)][ClientIdOf(last.c)].authenticated
    /\ Len(delivery[TransportOf(last.c)]) = 1

\* C12: a pair with the transport's master token makes the session authenticated as
\* the request's device and yields one pair_ack "paired" with that device_id and a
\* non-empty auth_token that validate_auth_token accepts for that device_id under
\* the store's secret key.
C12_PairAckTokenValidates ==
    (last.op = "pair" /\ last.branch = "paired" /\ InTable(last.c))
    => LET t == TransportOf(last.c)
           ack == Unwrap(last.reply)
       IN  /\ clients[t][ClientIdOf(last.c)].authenticated
           /\ clients[t][ClientIdOf(last.c)].device_id = last.dev
           /\ ack.action = "pair_ack"
           /\ ack.status = Some("paired")
           /\ ack.device_id = last.dev
           /\ last.sent
           /\ IsSome(ack.auth_token)
           /\ Unwrap(ack.auth_token) # EmptyToken
           /\ validate_auth_token(Unwrap(ack.auth_token), Unwrap(last.dev),
                                  Unwrap(tconfig[t].secret_key))

\* C13: a pair whose masterToken differs from the master token of its transport,
\* received on a session of the table, is answered with error "Invalid pairing
\* token" and changes nothing else: the stores and the secret key, every session
\* (no eviction, the sender's authenticated flag and device_id), and the socket,
\* which stays open.
C13_BadMasterTokenChangesNothing ==
    [][(last'.op = "pair" /\ InTable(last'.c))
        => \A m \in ClientMasterTokens :
            (/\ m # token[TransportOf(last'.c)]
             /\ handle_pair_request(last'.c, Unwrap(last'.dev), m))
            => /\ last'.reply = Some(ErrorMsg("Invalid pairing token"))
               /\ last'.sent
               /\ outbound' = [outbound EXCEPT ![last'.c] = @ + 1]
               /\ clients' = clients
               /\ tconfig' = tconfig
               /\ appCfg' = appCfg
               /\ disk' = disk
               /\ keyGen' = keyGen
               /\ conns' = conns
               /\ conns'[last'.c].open]_vars

\* C13 witness: a pair with a wrong master token was answered with the error on a
\* session of the table, whose socket is open
C13_Witness ==
    /\ last.op = "pair" /\ last.branch = "bad_token" /\ last.sent
    /\ last.reply = Some(ErrorMsg("Invalid pairing token"))
    /\ conns[last.c].open
    /\ InTable(last.c)

\* C14: a reconnect received on a session of the table is checked in this order:
\* deviceId not in the store gives reconnect_ack "unauthorized"; otherwise no secret
\* key gives error "Server configuration error"; otherwise a token that does not
\* verify gives reconnect_ack "invalid_token".  In the three cases the sessions
\* (flags, device ids, no eviction) and the stores (last_seen included) are unchanged.
C14_ReconnectRefusalOrder ==
    [][(last'.op = "reconnect" /\ InTable(last'.c))
        => \A a \in ClientAuthTokens :
            handle_reconnect_request(last'.c, Unwrap(last'.dev), a)
            => LET cfg == tconfig[TransportOf(last'.c)]
                   d == Unwrap(last'.dev)
                   known == d \in DOMAIN cfg.authorized_devices
                   keyed == IsSome(cfg.secret_key)
                   verifies == validate_auth_token(a, d, Unwrap(cfg.secret_key))
                   unchanged == /\ clients' = clients
                                /\ tconfig' = tconfig
                                /\ appCfg' = appCfg
                                /\ disk' = disk
               IN  /\ ~known =>
                        /\ last'.reply = Some(ReconnectAck("unauthorized",
                                "Device not authorized. Please pair again."))
                        /\ unchanged
                   /\ (known /\ ~keyed) =>
                        /\ last'.reply = Some(ErrorMsg("Server configuration error"))
                        /\ unchanged
                   /\ (known /\ keyed /\ ~verifies) =>
                        /\ last'.reply = Some(ReconnectAck("invalid_token",
                                "Invalid auth token. Please pair again."))
                        /\ unchanged
                   /\ (~known \/ ~keyed \/ ~verifies) =>
                        /\ last'.sent
                        /\ outbound' = [outbound EXCEPT ![last'.c] = @ + 1]]_vars

\* C14 witness: a reconnect for a device the store lists was refused with the
\* configuration error because the store has no secret key
C14_Witness ==
    /\ last.op = "reconnect" /\ last.branch = "refused" /\ last.sent
    /\ last.reply = Some(ErrorMsg("Server configuration error"))
    /\ Unwrap(last.dev) \in DOMAIN tconfig[TransportOf(last.c)].authorized_devices

\* C15: after a pair, a reconnect or an accepted scan has tied session s to device
\* D, no other session of the table has device_id D.
C15_NewSocketWins ==
    (/\ \/ last.op = "pair" /\ last.branch = "paired"
        \/ last.op = "reconnect" /\ last.branch = "connected"
        \/ last.op = "scan" /\ last.branch = "accepted"
     /\ InTable(last.c))
    => /\ \A id \in DOMAIN clients[TransportOf(last.c)] \ {ClientIdOf(last.c)} :
            clients[TransportOf(last.c)][id].device_id # last.dev
       /\ Cardinality(SessionsOf(TransportOf(last.c), Unwrap(last.dev))) = 1

\* C16: a text frame that is not valid JSON, or that has a known action and does not
\* match its schema, is answered with a message whose action is "error".
C16_MalformedFrameGetsError ==
    (/\ last.op = "frame"
     /\ last.branch \in {"not_json", "bad_pair", "bad_reconnect", "bad_scan"}
     /\ InTable(last.c))
    => /\ IsSome(last.reply)
       /\ Unwrap(last.reply).action = "error"
       /\ last.sent

\* the step made a session authenticated that was not so before (new sessions
\* included); BecameAuthenticated(t, id) names it
BecameAuthenticated(t, id) ==
    /\ id \in DOMAIN clients'[t]
    /\ clients'[t][id].authenticated
    /\ ~(t \in Transports /\ id \in DOMAIN clients[t] /\ clients[t][id].authenticated)

\* C17 as claimed: a session becomes authenticated only while a pair or a reconnect
\* is processed; no other message kind performs that transition.
C17_OnlyPairOrReconnect ==
    [][\A t \in 1..Len(clients') : \A id \in DOMAIN clients'[t] :
        BecameAuthenticated(t, id) => last'.op \in {"pair", "reconnect"}]_vars

\* C17 as amended: a session becomes authenticated only while a pair, a reconnect or
\* an accepted scan received on that session is processed; a handshake, a rejected
\* scan, an unknown action or a malformed frame never performs that transition, and
\* a session starts unauthenticated.
C17_OnlyPairReconnectOrScan ==
    [][\A t \in 1..Len(clients') : \A id \in DOMAIN clients'[t] :
        BecameAuthenticated(t, id)
        => /\ \/ last'.op = "pair" /\ last'.branch = "paired"
              \/ last'.op = "reconnect" /\ last'.branch = "connected"
              \/ last'.op = "scan" /\ last'.branch = "accepted"
           /\ TransportOf(last'.c) = t
           /\ ClientIdOf(last'.c) = id]_vars

\* C17 witness: an accepted scan left its session authenticated for a device that
\* the store does not list, so neither a pair nor a reconnect authenticated it
C17_Witness ==
    /\ last.op = "scan" /\ last.branch = "accepted"
    /\ InTable(last.c)
    /\ clients[TransportOf(last.c)][ClientIdOf(last.c)].authenticated
    /\ ~is_device_authorized(tconfig[TransportOf(last.c)], Unwrap(last.dev))

\* C18: a handshake changes no state: the sessions (flags, device ids, names) and
\* the stores are unchanged, and it yields one handshake_ack "connected" that
\* carries the session's client_id.
C18_HandshakeChangesNothing ==
    [][(last'.op = "handshake")
        => /\ clients' = clients
           /\ tconfig' = tconfig
           /\ appCfg' = appCfg
           /\ disk' = disk
           /\ delivery' = delivery
           /\ last'.reply = Some(Msg("handshake_ack", Some("connected"), None, None,
                                     None, Some(ClientIdOf(last'.c)), None))
           /\ InTable(last'.c) =>
                /\ last'.sent
                /\ outbound' = [outbound EXCEPT ![last'.c] = @ + 1]]_vars

\* C18 witness: a second handshake on an authenticated session was acknowledged
C18_Witness ==
    /\ last.op = "handshake" /\ last.sent
    /\ outbound[last.c] = 2
    /\ clients[TransportOf(last.c)][ClientIdOf(last.c)].authenticated

\* C19: validate_auth_token(T, D, K) is true if and only if T was produced by
\* create_auth_token(D, K) with that same K and that same D, over all device ids,
\* those that contain the separator included.
C19_ValidatesIffMintedForSame ==
    IsSome(verdict)
    => (Unwrap(verdict).ok <=> /\ Unwrap(minted).dev = Unwrap(verdict).dev
                               /\ Unwrap(minted).key = Unwrap(verdict).key)

\* C20: get_connected_count is the number of distinct device ids among the
\* authenticated sessions, whatever the number of sockets or of sessions that share
\* a device id.
C20_CountsDistinctDevices ==
    \A t \in Transports :
        get_connected_count(t) =
            Cardinality({d \in DeviceIds : SessionsOf(t, d) # {}})

\* C20 witness: two authenticated sessions of one transport share a device id
C20_Witness ==
    \E t \in Transports : \E d \in DeviceIds :
        /\ Cardinality(SessionsOf(t, d)) = 2
        /\ get_connected_count(t) = 1

\* a type_barcode call has returned
Typed == kbd # None /\ IsSome(kbd.out)

\* C24: for every injection backend, when type_barcode returns Ok and the clipboard
\* held text before the call, the clipboard holds that same text again after the
\* call.
C24_ClipboardRestored ==
    (Typed /\ Unwrap(kbd.out).ret.ok /\ IsSome(kbd.clip))
    => Unwrap(kbd.out).clip = kbd.clip

\* C25: in every backend type_barcode returns Ok only when the clipboard write, the
\* Ctrl+V and the Enter all succeeded, and an error when one of them failed (an
\* external tool that runs and exits non-zero included).
C25_OkIffAllStepsSucceeded ==
    Typed => (Unwrap(kbd.out).ret.ok
                <=> /\ Unwrap(kbd.out).wrote
                    /\ Unwrap(kbd.out).pasted
                    /\ Unwrap(kbd.out).entered)

TaskLive(t) == task[t] \in {"spawned", "listening"}

\* get_server_state and get_current_qr_data on the Supervisor state (srv, ci)
IsRunning(srv) == srv # 0
ConnectedClients(srv) == IF srv # 0 THEN get_connected_count(srv) ELSE 0
CurrentQrData(srv, ci) == IF srv # 0 THEN ci ELSE None

\* C22: stop on a running server returns Ok, after which the server is reported
\* not running, the connected count is 0, the current QR data is absent and no
\* transport task is live; stop when no server is running returns the error
\* "Server is not running" and changes no state.
C22_StopStopsEverything ==
    [][(cmdCount' # cmdCount /\ last'.op = "stop") =>
        IF server # 0
            THEN /\ last'.ret = RetOk(None)
                 /\ ~IsRunning(server')
                 /\ ConnectedClients(server') = 0
                 /\ CurrentQrData(server', connection_info') = None
                 /\ connection_info' = None
                 /\ \A t \in Transports : ~TaskLive(t)'
        ELSE /\ last'.ret = RetErr("Server is not running")
             /\ UNCHANGED <<server, server_task, connection_info, starting, appCfg,
                            disk, tableVars, conns, outbound, calls, pending>>]_vars

\* invocation i has set the starting flag and has not returned
InProgress(i) ==
    calls[i].pc \in {"stop_old", "publish", "create", "spawn", "store_task", "release"}
\* invocation i has published its ConnectionInfo
Published(i) == calls[i].pc \in {"create", "spawn", "store_task", "release"}
\* tok is the master token of the running transport or of the start in progress
ActiveMasterToken(tok) ==
    \/ server # 0 /\ token[server] = tok
    \/ \E j \in DOMAIN calls : InProgress(j) /\ Published(j) /\ calls[j].tok = tok

\* C23: while one start is in progress, at most one invocation generates a master
\* token and spawns a transport; every other invocation creates no server and
\* returns an error or the ConnectionInfo published by the start in progress, never
\* a ConnectionInfo whose token is not the active master token.
C23_StartsCoalesce ==
    [][/\ Cardinality({i \in DOMAIN calls' : InProgress(i)'}) <= 1
       /\ \A i \in DOMAIN calls :
            (/\ calls[i].pc = "wait"
             /\ calls'[i].pc = "done"
             /\ \E j \in DOMAIN calls : InProgress(j))
            => /\ calls'[i].t = 0
               /\ numT' = numT
               /\ Unwrap(calls'[i].ret).ok
                    => ActiveMasterToken(Unwrap(Unwrap(calls'[i].ret).qr).token)]_vars

\* C21: after shutdown() of a transport has returned, its accept loop accepts no
\* socket, its session table is empty and stays empty (also for a socket accepted
\* before the signal whose handler registers afterwards, and when the shutdown
\* sender was not installed yet), and no server-originated message is enqueued to
\* any of its clients.
C21_ShutdownSilences ==
    [][\A t \in Transports :
        t # server
        => /\ clients'[t] = EmptyMap
           /\ task'[t] # "listening"
           /\ \A p \in (DOMAIN pending') \ (DOMAIN pending) : pending'[p].t # t
           /\ \A c \in Conns : TransportOf(c) = t => outbound'[c] = outbound[c]]_vars

\* C27: within one transport lifetime no two sessions, live or closed or evicted,
\* receive the same client_id, also when their sockets are accepted concurrently;
\* the counter is above every id it has handed out.
C27_ClientIdsUnique ==
    \A p \in DOMAIN pending :
        pending[p].id # -1
        => /\ pending[p].id < next_client_id[pending[p].t]
           /\ \A q \in DOMAIN pending :
                (q # p /\ pending[q].t = pending[p].t) => pending[q].id # pending[p].id

\* two sockets of one transport whose handlers ran concurrently: the socket accepted
\* second drew its id first
C27_Witness ==
    /\ Len(pending) = 2
    /\ pending[1].t = pending[2].t
    /\ pending[1].id = 1
    /\ pending[2].id = 0

\* the session of socket c was removed from the session table by duplicate eviction
\* or by shutdown: the read loop has not ended and the session is not in the table
Removed(c) == c \in Conns /\ conns[c].open /\ ~InTable(c)

\* C29: when a session is removed from the session table by duplicate eviction or
\* by shutdown, nothing is enqueued on its outbound queue any more and the
\* connection's reader task eventually exits, without waiting for the peer.
C29_RemovedReaderExits ==
    /\ [][\A c \in Conns : Removed(c) => outbound'[c] = outbound[c]]_vars
    /\ \A c \in 1..MaxConns : Removed(c) ~> (c \in Conns /\ ~conns[c].open)

\* C30: for any single connection, a step of its reader enqueues on no other
\* connection's outbound queue and at most the reply to the message it read; the
\* Delivery Channel only grows at its end; and an accepted scan enqueues the
\* scan_ack and then the BarcodeEvent.
C30_OrderPreserved ==
    [][/\ \A c \in Conns :
            /\ outbound'[c] \in {outbound[c], outbound[c] + 1}
            /\ outbound'[c] # outbound[c] => (last'.c = c /\ msgCount' = msgCount + 1)
       /\ \A t \in Transports :
            \/ delivery'[t] = delivery[t]
            \/ /\ Len(delivery'[t]) = Len(delivery[t]) + 1
               /\ SubSeq(delivery'[t], 1, Len(delivery[t])) = delivery[t]
               /\ last'.op = "scan"
       /\ (last'.op = "scan" /\ last'.branch = "accepted" /\ msgCount' # msgCount)
            => last'.effects = <<"outbound", "delivery">>]_vars

\* C28: no mutex is held at the moment a thread performs a channel send (outbound
\* queue, Delivery Channel, shutdown signal) or a write of the config file, nor
\* across a suspension point, in any handler or Supervisor command.
C28_NoMutexAcrossEffects ==
    \A h \in DOMAIN lk :
        NextOp(h)[1] \in {"send", "write", "await"} => lk[h].held = {}

\* the transport the Supervisor holds, seen from a socket: the running transport
Running(c) == c \in Conns /\ server # 0 /\ TransportOf(c) = server

\* C31: after every completed operation, the Supervisor's configuration and the
\* running transport's Credential Store hold the same authorized device ids and the
\* same secret key, and the config file still lists every device that paired and
\* was not revoked since.
C31_ConfigsAgree ==
    /\ server # 0 =>
        /\ DOMAIN appCfg.authorized_devices = DOMAIN tconfig[server].authorized_devices
        /\ appCfg.secret_key = tconfig[server].secret_key
    /\ diskOk => paired \subseteq DOMAIN disk.authorized_devices

\* C32: a pair, reconnect or scan read on a socket whose session is no longer in
\* the session table leaves the session table, the Credential Store, the config
\* file and the Delivery Channel unchanged.
C32_RemovedSessionInert ==
    [][(/\ msgCount' # msgCount
        /\ last'.op \in {"pair", "reconnect", "scan"}
        /\ ~InTable(last'.c))
       => /\ clients' = clients
          /\ tconfig' = tconfig
          /\ disk' = disk
          /\ delivery' = delivery]_vars

\* C34: when a start (or the start inside regenerate_token) has returned, the
\* "starting" flag is false again, and no start is answered "Server is already
\* starting" because of an earlier start that failed.
C34_StartingReset ==
    last.op \in {"start", "regenerate"}
    => /\ ~starting
       /\ last.ret.err # "Server is already starting"

\* C35: after revoke(D) has returned Ok and D has not paired again, a scan naming D
\* is accepted on a session of the running transport only when it carries the
\* active master token.
C35_RevokedScanRefused ==
    (/\ last.op = "scan" /\ last.branch = "accepted"
     /\ Running(last.c)
     /\ Unwrap(last.dev) \in revoked)
    => 3 \in last.rules

\* C36: an accepted scan on a session authenticated as D1 enqueues a BarcodeEvent
\* carrying D1 and leaves the session's device id D1, whatever deviceId the scan
\* names.
C36_ScanKeepsSessionDevice ==
    [][(/\ msgCount' # msgCount
        /\ last'.op = "scan" /\ last'.branch = "accepted"
        /\ InTable(last'.c)
        /\ clients[TransportOf(last'.c)][ClientIdOf(last'.c)].authenticated
        /\ IsSome(clients[TransportOf(last'.c)][ClientIdOf(last'.c)].device_id))
       => LET t == TransportOf(last'.c)
              id == ClientIdOf(last'.c)
              D1 == Unwrap(clients[t][id].device_id)
          IN  /\ delivery'[t][Len(delivery'[t])].device_id = D1
              /\ clients'[t][id].device_id = Some(D1)]_vars

\* C37: in every reachable state, each session with authenticated = true has a
\* device id, and that device id is an entry of its transport's authorized_devices.
C37_AuthenticatedIsAuthorized ==
    \A t \in Transports : \A id \in DOMAIN clients[t] :
        clients[t][id].authenticated
        => /\ IsSome(clients[t][id].device_id)
           /\ is_device_authorized(tconfig[t], Unwrap(clients[t][id].device_id))

\* no command is between two of its steps and every spawned transport task has
\* been scheduled: it listens or it has ended
Settled ==
    /\ \A i \in DOMAIN calls : calls[i].pc = "done"
    /\ \A t \in Transports : task[t] # "spawned"

\* C33: under any interleaving of start, stop and regenerate_token, once the
\* commands have returned and the spawned tasks have been scheduled, at most one
\* transport task is live, the server is reported running if and only if a
\* transport task is live, and when it is reported running the published
\* ConnectionInfo carries the master token of the live transport.
C33_SupervisorMatchesTransports ==
    Settled
    => /\ Cardinality({t \in Transports : TaskLive(t)}) <= 1
       /\ IsRunning(server) <=> \E t \in Transports : TaskLive(t)
       /\ IsRunning(server)
            => /\ TaskLive(server)
               /\ IsSome(connection_info)
               /\ Unwrap(connection_info).token = token[server]

\* C40: whenever the cross-platform backend (enigo) has run and type_barcode has
\* returned, with Ok or with an error from any step, no key it pressed is still
\* down: the Control modifier is not left held.
C40_KeysReleased ==
    (Typed /\ Unwrap(kbd.out).ran = <<"enigo">>) => Unwrap(kbd.out).held = {}

\* the mutexes a thread holds just before operation k of program prog
RECURSIVE HeldBefore(_, _)
HeldBefore(prog, k) ==
    IF k = 1 THEN {}
    ELSE LET before == HeldBefore(prog, k - 1)
             op == prog[k - 1]
         IN  IF op[1] = "lock" THEN before \cup {op[2]}
             ELSE IF op[1] = "unlock" THEN before \ {op[2]}
             ELSE before

\* <<a, b>>: some handler or command locks b while it holds a
LockOrder ==
    UNION {{<<a, Programs[n][k][2]>> : a \in HeldBefore(Programs[n], k)} :
           <<n, k>> \in {nk \in UNION {{<<m, j>> : j \in 1..Len(Programs[m])} :
                                       m \in DOMAIN Programs} :
                            Programs[nk[1]][nk[2]][1] = "lock"}}

\* the pairs joined by a chain of at most n + 1 pairs of R
RECURSIVE Chains(_, _)
Chains(R, n) ==
    IF n = 0 THEN R
    ELSE LET C == Chains(R, n - 1)
         IN  C \cup {<<x[1], y[2]>> : <<x, y>> \in {xy \in C \X R : xy[1][2] = xy[2][1]}}

\* thread h waits for a mutex some thread holds
Blocked(h) == NextOp(h)[1] = "lock" /\ NextOp(h)[2] \in Held

\* C39: no reachable interleaving of Supervisor commands and per-connection
\* handlers deadlocks: while some thread has not finished, some thread can take its
\* next step; and the order in which the handlers and commands acquire the mutexes
\* admits no cycle (no mutex is locked, directly or through a chain of nested
\* acquisitions, while it is held).
C39_NoDeadlock ==
    /\ (\E h \in DOMAIN lk : NextOp(h)[1] # "end")
        => \E h \in DOMAIN lk : NextOp(h)[1] # "end" /\ ~Blocked(h)
    /\ \A e \in Chains(LockOrder, Cardinality(LockOrder)) : e[1] # e[2]

\* C39 witness: a thread that holds a mutex waits for a mutex held by a thread that
\* holds two, and goes on when it is released
C39_Witness ==
    \E h1, h2 \in DOMAIN lk :
        /\ h1 # h2
        /\ Blocked(h1)
        /\ lk[h1].held # {}
        /\ NextOp(h1)[2] \in lk[h2].held
        /\ Cardinality(lk[h2].held) = 2

\* C38: the paste-and-enter sequences of different BarcodeEvents never overlap: the
\* key events arrive as Ctrl+V, Enter of the first event enqueued, then Ctrl+V,
\* Enter of the second, and so on, and the clipboard content pasted by each Ctrl+V
\* is that event's barcode, also when several scans arrive back to back.
C38_InjectionsSerial ==
    inj # None =>
        \A k \in DOMAIN inj.keys :
            /\ inj.keys[k].event = (k + 1) \div 2
            /\ inj.keys[k].key = (IF k % 2 = 1 THEN "ctrl+v" ELSE "enter")
            /\ inj.keys[k].key = "ctrl+v"
                => inj.keys[k].text = Some(BarcodeOf(inj.keys[k].event))

====
